---------------------------- MODULE Spec2Model ----------------------------
(***************************************************************************)
(* Multi-store order aggregation (src/services/ozonService.ts).            *)
(*                                                                         *)
(* fetchAggregatedOrders starts one fetchOrdersForStore per credential,    *)
(* waits for all of them with Promise.all, flattens and sorts.  Each       *)
(* fetchOrdersForStore pages through /v3/posting/fbs/list with offset      *)
(* 0, 100, 200, ... and turns every failure into alert() + [].             *)
(* The Dashboard (src/components/Dashboard.tsx) derives its statistics,    *)
(* chart and product groups from the aggregated orders.                    *)
(*                                                                         *)
(* The JavaScript run is one thread with suspension points at `await`:     *)
(* one action of this module is the code that runs between two             *)
(* suspension points.  The transport (the remote service and the network)  *)
(* is the environment: it chooses each response.                           *)
(***************************************************************************)
EXTENDS Integers, Sequences, FiniteSets, TLC

(***************************************************************************)
(* Bounds of the model (not program constants).                            *)
(***************************************************************************)
\* longest credential list handed to fetchAggregatedOrders
MaxStores == 2
\* pages answered with has_next = true over one run, all stores together
\* (lifted for the endless store, which the safety limit must stop)
MaxPages == 2
\* postings the transport delivers over one run, all stores together
MaxOrders == 2
\* longest list of orders handed to the Dashboard
MaxOrderSeq == 3
\* loadData runs started over one behaviour
MaxLoads == 3

(***************************************************************************)
(* Program constants.                                                      *)
(***************************************************************************)
\* const limit = 100
limit == 100
\* if (offset > 10000) break
SafetyLimit == 10000
\* for (let i = 14; i >= 0; i--)
ChartSpan == 14
\* ... || 'RUB'; let dominantCurrency = 'RUB'
DefaultCurrency == "RUB"

(***************************************************************************)
(* Input domains.                                                          *)
(***************************************************************************)
\* Client ids are opaque: lists of distinct ids are taken in one order, and one
\* list repeats an id (a caller error the code does not reject).
StoreIdList == <<"A", "B", "C">>

\* A posting as delivered may already carry a clientId field ("none": absent).
NoTag == "none"

\* What the transport delivers: <<in_process_at, clientId>> of a posting.
\* in_process_at is an ISO-8601 string; the last two denote the same instant
\* in different notations.
Deliverable ==
    { <<"2024-01-01T00:00:00Z", NoTag>>,
      <<"2024-01-02T00:00:00Z", "B">>,
      <<"2024-01-02T03:00:00+03:00", NoTag>> }

\* Bodies of a non-ok response.  json: the body parses as JSON; message and
\* nested: its `message` and `error.message` fields ("": absent); text: the raw
\* body.
BodyBoth   == [json |-> TRUE,  message |-> "msg", nested |-> "nested", text |-> "{both}"]
BodyNested == [json |-> TRUE,  message |-> "",    nested |-> "nested", text |-> "{nested}"]
BodyOther  == [json |-> TRUE,  message |-> "",    nested |-> "",       text |-> "{other}"]
BodyHtml   == [json |-> FALSE, message |-> "",    nested |-> "",       text |-> "<html>"]

\* The non-ok responses of the transport: <<status, body>>.
ErrorResponses ==
    { <<401, BodyBoth>>, <<403, BodyNested>>, <<500, BodyOther>>, <<500, BodyHtml>>,
      <<401, BodyHtml>> }

---------------------------------------------------------------------------
(***************************************************************************)
(* Pure helpers.                                                           *)
(***************************************************************************)
Min(a, b) == IF a < b THEN a ELSE b

\* new Date(s).getTime(), in hours since the epoch (a monotone rescaling of
\* the milliseconds, which do not fit TLC's integers).
getTime(s) ==
    CASE s = "2024-01-01T00:00:00Z"      -> 473352
      [] s = "2024-01-02T00:00:00Z"      -> 473376
      [] s = "2024-01-02T03:00:00+03:00" -> 473376

\* Faulty variant: the operands swapped (ascending order).
compareFnAscending(a, b) == getTime(a.in_process_at) - getTime(b.in_process_at)

\* (a, b) => new Date(b.in_process_at).getTime() - new Date(a.in_process_at).getTime()
compareFn(a, b) == getTime(b.in_process_at) - getTime(a.in_process_at)

\* Faulty variant: an unstable sort, x goes before the elements equal to it.
RECURSIVE InsertSortedUnstable(_, _)
InsertSortedUnstable(x, s) ==
    IF s = <<>> THEN <<x>>
    ELSE IF compareFn(Head(s), x) < 0 THEN <<Head(s)>> \o InsertSortedUnstable(x, Tail(s))
    ELSE <<x>> \o s

\* Array.prototype.sort(compareFn): stable; x goes before y when
\* compareFn(x, y) < 0 and equal elements keep their order.
RECURSIVE InsertSorted(_, _)
InsertSorted(x, s) ==
    IF s = <<>> THEN <<x>>
    ELSE IF compareFn(Head(s), x) <= 0 THEN <<Head(s)>> \o InsertSorted(x, Tail(s))
    ELSE <<x>> \o s

RECURSIVE sort(_)
sort(s) ==
    IF s = <<>> THEN <<>>
    ELSE InsertSorted(s[Len(s)], sort(SubSeq(s, 1, Len(s) - 1)))

\* results.flat()
RECURSIVE flat(_)
flat(ss) == IF ss = <<>> THEN <<>> ELSE Head(ss) \o flat(Tail(ss))

\* Faulty variant: ({ clientId: credentials.clientId, ...p }), a delivered tag wins.
TagKeepTransport(postings, clientId) ==
    [k \in 1..Len(postings) |->
        IF postings[k].clientId = NoTag THEN [postings[k] EXCEPT !.clientId = clientId]
        ELSE postings[k]]

\* allPostings.map(p => ({ ...p, clientId: credentials.clientId }))
TagPostings(postings, clientId) ==
    [k \in 1..Len(postings) |-> [postings[k] EXCEPT !.clientId = clientId]]


\* An optional value (null / undefined in the source) is a set with at most
\* one element; `x || []` is OrEmpty(x).
Null == {}
Some(x) == {x}
OrEmpty(opt) == IF opt = Null THEN <<>> ELSE CHOOSE x \in opt : TRUE

Range(s) == { s[k] : k \in DOMAIN s }

RECURSIVE SumLen(_)
SumLen(ss) == IF ss = <<>> THEN 0 ELSE Len(Head(ss)) + SumLen(Tail(ss))

\* `${response.status}`
StatusText(status) ==
    CASE status = 401 -> "401" [] status = 403 -> "403" [] status = 500 -> "500"

\* Messages of the errors the runtime itself throws.
FetchFailedMessage == "Failed to fetch"
BodyUsedMessage    == "body stream already read"
SyntaxErrorMessage == "Unexpected token in JSON"
TypeErrorMessage   == "Cannot read properties of undefined (reading 'postings')"

\* Lines 52-65: the detail of a non-ok response.  response.json() consumes the
\* body; when it rejects (the body is not JSON) the handler calls
\* response.text() on the consumed body, which rejects with a TypeError that
\* leaves the inner catch: [threw |-> TRUE].
ErrorDetail(body) ==
    IF body.json
    THEN [threw |-> FALSE,
          detail |-> IF body.message # "" THEN body.message
                     ELSE IF body.nested # "" THEN body.nested
                     ELSE body.text]
    ELSE [threw |-> TRUE, detail |-> BodyUsedMessage]

\* Lines 51-72: error.message of what a non-ok response makes the loop throw.
HttpErrorMessage(status, body) ==
    LET d == ErrorDetail(body) IN
    IF d.threw THEN <<d.detail>>
    ELSE IF status = 401 \/ status = 403
         THEN <<"Client ID or API Key invalid", d.detail>>
         ELSE <<"API Error", StatusText(status), d.detail>>

---------------------------------------------------------------------------
(***************************************************************************)
(* State.                                                                  *)
(***************************************************************************)
VARIABLES
    credentialsList,  \* argument of fetchAggregatedOrders (optional list of clientIds)
    endless,          \* environment: the store never answers has_next = false
    pc,               \* fetchAggregatedOrders: "idle", "awaiting", "returned", "failed"
    promises,         \* promises[i]: state and value of fetchOrdersForStore(credentialsList[i])
    offset,           \* offset[i]: local `offset` of store i's fetch
    allPostings,      \* allPostings[i]: local accumulator of store i's fetch
    hasNext,          \* hasNext[i]: local `hasNext` of store i's fetch
    requests,         \* network log: requests[i] is the offsets store i's fetch requested, in order
    alerts,           \* alerts[i]: the alert() calls of store i's fetch, in order
    ret,              \* value fetchAggregatedOrders resolved with
    delivered,        \* history: delivered[i] is the number of postings delivered to store i
    pageFailed,       \* history: pageFailed[i] iff a page request of store i failed
    \* Dashboard (src/components/Dashboard.tsx)
    orders,           \* the `orders` prop
    now,              \* the clock: the UTC day of `new Date()`, in days since 2023-12-01
    stats,            \* value of the `stats` memo (optional: not computed yet)
    smartGroups,      \* value of the `smartGroups` memo (optional: not computed yet)
    averages,         \* the rendered average-order-value card (optional)
    salesByDateAndCurrency,  \* the memo's local of that name after the loop (optional)
    packedOrderIds,   \* the `packedOrderIds` state: a set of posting numbers
    selectedOrders,   \* the `selectedOrders` state: a set of posting numbers
    groupCards,       \* the rendered packed/unpacked counts of the groups (optional)
    exported,         \* the last picking list handed to the browser (optional)
    \* Dashboard, handleDownloadLabels and fetchPackageLabel
    storedCreds,      \* the credential list kept in localStorage
    downloading,      \* the `downloading` state
    labelPc,          \* position of handleDownloadLabels
    labelBatches,     \* Object.entries(groups): the batches not yet requested
    labelRequests,    \* history: the label requests sent, [cred, target, ids]
    labelDownloads,   \* history: the label files handed to the browser
    labelAlerts,      \* history: number of alert() calls of handleDownloadLabels
    \* App (src/App.tsx)
    mounted,          \* the mount effects have run
    appCredentials,   \* the `credentialsList` state
    currentView,      \* the `currentView` state
    loading,          \* the `loading` state
    loads,            \* history: the loadData runs, in the order they started
    loggedOut         \* history: handleLogout has run and no credentials were saved since

aggVars == << credentialsList, endless, pc, promises, offset, allPostings, hasNext,
              requests, alerts, ret, delivered, pageFailed >>
pickVars == << packedOrderIds, selectedOrders, groupCards, exported >>
labelVars == << storedCreds, downloading, labelPc, labelBatches, labelRequests,
                labelDownloads, labelAlerts >>
appVars == << mounted, appCredentials, currentView, loading, loads, loggedOut >>
dashVars == << orders, now, stats, smartGroups, averages, salesByDateAndCurrency,
              pickVars, labelVars >>
vars == << aggVars, dashVars, appVars >>

creds == OrEmpty(credentialsList)
Stores == 1..Len(creds)

CredLists ==
    { SubSeq(StoreIdList, 1, n) : n \in 0..Min(MaxStores, Len(StoreIdList)) }
        \cup { <<"A", "A">> }

\* The aggregator before fetchAggregatedOrders is called.
AggIdle ==
    /\ pc = "idle"
    /\ promises = <<>>
    /\ offset = <<>>
    /\ allPostings = <<>>
    /\ hasNext = <<>>
    /\ requests = <<>>
    /\ alerts = <<>>
    /\ ret = <<>>
    /\ delivered = <<>>
    /\ pageFailed = <<>>

\* The Dashboard's picking state as useState creates it, nothing saved.
PickIdle ==
    /\ packedOrderIds = {}
    /\ selectedOrders = {}
    /\ groupCards = Null
    /\ exported = Null

\* No label download under way, none made.
LabelIdle ==
    /\ storedCreds = <<>>
    /\ downloading = FALSE
    /\ labelPc = "idle"
    /\ labelBatches = <<>>
    /\ labelRequests = <<>>
    /\ labelDownloads = <<>>
    /\ labelAlerts = 0

\* The App as useState creates it, before its effects run.
AppIdle ==
    /\ mounted = FALSE
    /\ appCredentials = <<>>
    /\ currentView = "dashboard"
    /\ loading = FALSE
    /\ loads = <<>>
    /\ loggedOut = FALSE

Init ==
    /\ credentialsList \in {Null} \cup { Some(l) : l \in CredLists }
    /\ endless \in BOOLEAN
    /\ endless => Len(creds) = 1
    /\ pc = "idle"
    /\ promises = <<>>
    /\ offset = <<>>
    /\ allPostings = <<>>
    /\ hasNext = <<>>
    /\ requests = <<>>
    /\ alerts = <<>>
    /\ ret = <<>>
    /\ delivered = <<>>
    /\ pageFailed = <<>>
    /\ orders = <<>>
    /\ now = 0
    /\ stats = Null
    /\ smartGroups = Null
    /\ averages = Null
    /\ salesByDateAndCurrency = Null
    /\ PickIdle
    /\ LabelIdle
    /\ AppIdle

---------------------------------------------------------------------------
(***************************************************************************)
(* fetchOrdersForStore: the code between two suspension points.            *)
(***************************************************************************)
Pending(i)   == i \in DOMAIN promises /\ promises[i].state = "pending"
Fulfilled(v) == [state |-> "fulfilled", value |-> v]
Rejected     == [state |-> "rejected", value |-> <<>>]

\* Faulty variant: the catch block swallows the error without alert().
CatchSilent(i, message) == [ promise |-> Fulfilled(<<>>), alerts |-> <<>> ]

\* Faulty variant: the catch block reports and rethrows.
CatchRethrow(i, message) ==
    [ promise |-> Rejected,
      alerts  |-> <<[clientId |-> creds[i], message |-> message]>> ]

\* Faulty variant: the catch block returns what was accumulated so far.
CatchPartial(i, message) ==
    [ promise |-> Fulfilled(TagPostings(allPostings[i], creds[i])),
      alerts  |-> <<[clientId |-> creds[i], message |-> message]>> ]

\* Lines 89-98: the catch block.  It reports with alert() and returns [], so
\* the promise of fetchOrdersForStore fulfils with the empty list.
Catch(i, message) ==
    [ promise |-> Fulfilled(<<>>),
      alerts  |-> <<[clientId |-> creds[i], message |-> message]>> ]

\* Faulty variant: allPostings = pagePostings.
AccumulateOverwrite(all, pagePostings) == pagePostings

\* allPostings = [...allPostings, ...pagePostings]
Accumulate(all, pagePostings) == all \o pagePostings

\* Faulty variant: offset += 2 * limit.
NextOffsetSkip(off) == off + 2 * limit

\* offset += limit
NextOffset(off) == off + limit

\* Faulty variant: if (offset >= 10000) break.
SafetyBreakOffByOne(off) == off >= SafetyLimit

\* if (offset > 10000) break
SafetyBreak(off) == off > SafetyLimit

\* A page request of store i ends in a thrown error with this message
\* (lines 41-75 throw, lines 89-98 catch).
Fail(i, message) ==
    LET c == Catch(i, message) IN
    /\ Pending(i)
    /\ promises' = [promises EXCEPT ![i] = c.promise]
    /\ alerts' = [alerts EXCEPT ![i] = @ \o c.alerts]
    /\ allPostings' = [allPostings EXCEPT ![i] = <<>>]   \* the local goes out of scope
    /\ pageFailed' = [pageFailed EXCEPT ![i] = TRUE]
    /\ UNCHANGED << credentialsList, endless, pc, offset, hasNext, requests, ret,
                    delivered >>
    /\ UNCHANGED << dashVars, appVars >>

\* fetch() itself rejects: no connection, DNS, CORS.
FetchRejects(i) == Fail(i, <<FetchFailedMessage>>)

\* The response is not ok (lines 51-72).
ErrorResponse(i, status, body) == Fail(i, HttpErrorMessage(status, body))

\* The response is ok but its body is not JSON: response.json() rejects (line 74).
MalformedBody(i) == Fail(i, <<SyntaxErrorMessage>>)

\* The response is ok and JSON but has no `result`: data.result.postings
\* throws a TypeError (line 75).
MissingResult(i) == Fail(i, <<TypeErrorMessage>>)

\* The response is ok: lines 74-87.  `postings` is data.result.postings
\* (optional), `has_next` is data.result.has_next.
Page(i, postings, has_next) ==
    LET pagePostings == OrEmpty(postings)
        all == Accumulate(allPostings[i], pagePostings)
        off == NextOffset(offset[i])
        again == has_next /\ ~SafetyBreak(off)
    IN
    /\ Pending(i)
    /\ hasNext' = [hasNext EXCEPT ![i] = has_next]
    /\ offset' = [offset EXCEPT ![i] = off]
    /\ delivered' = [delivered EXCEPT ![i] = @ + Len(pagePostings)]
    /\ IF again
       THEN \* back to line 41: await fetch(...) with the new offset
            /\ allPostings' = [allPostings EXCEPT ![i] = all]
            /\ requests' = [requests EXCEPT ![i] = Append(@, off)]
            /\ UNCHANGED promises
       ELSE \* line 87: return the tagged postings; the local goes out of scope
            /\ allPostings' = [allPostings EXCEPT ![i] = <<>>]
            /\ promises' = [promises EXCEPT ![i] = Fulfilled(TagPostings(all, creds[i]))]
            /\ UNCHANGED requests
    /\ UNCHANGED << credentialsList, endless, pc, alerts, ret, pageFailed >>
    /\ UNCHANGED << dashVars, appVars >>

(***************************************************************************)
(* The transport: what it may answer to the pending request of store i.    *)
(***************************************************************************)
RECURSIVE Sum(_)
Sum(ns) == IF ns = <<>> THEN 0 ELSE Head(ns) + Sum(Tail(ns))

Served == Sum(delivered)
Requested == SumLen(requests)

\* Pages of at most `limit` postings.  Within one store the posting numbers
\* are distinct (non-overlapping pagination): the k-th posting delivered to a
\* store has posting_number k.
PagesFor(i) ==
    LET room == Min(limit, MaxOrders - Served)
        base == delivered[i]
    IN UNION { { [k \in 1..n |-> [ posting_number |-> base + k,
                                   in_process_at  |-> f[k][1],
                                   clientId       |-> f[k][2] ]]
                 : f \in [1..n -> Deliverable] }
               : n \in 0..room }

MayHaveNext == endless \/ Requested < Len(creds) + MaxPages

(***************************************************************************)
(* fetchAggregatedOrders.                                                  *)
(***************************************************************************)
\* Faulty variant: Promise.any / Promise.race, settled with the first settled promise.
PromiseAny(ps) ==
    IF \E i \in DOMAIN ps : ps[i].state = "rejected" THEN "rejected"
    ELSE IF \E i \in DOMAIN ps : ps[i].state = "fulfilled" THEN "fulfilled"
    ELSE "pending"

\* Promise.all(promises): rejected as soon as one promise is rejected,
\* fulfilled once every promise is fulfilled, pending otherwise.
PromiseAll(ps) ==
    IF \E i \in DOMAIN ps : ps[i].state = "rejected" THEN "rejected"
    ELSE IF \A i \in DOMAIN ps : ps[i].state = "fulfilled" THEN "fulfilled"
    ELSE "pending"

\* Faulty variant: if (credentialsList.length === 0) return [], without the null check.
NoCredentialsLengthOnly == credentialsList # Null /\ Len(creds) = 0

\* if (!credentialsList || credentialsList.length === 0) return [];
NoCredentials == credentialsList = Null \/ Len(creds) = 0

\* Lines 102-108, up to the await: the guard, then fetchOrdersForStore is
\* called for every credential in list order; each call runs to its first
\* await, i.e. issues its first page request.
Call ==
    /\ pc = "idle"
    /\ IF NoCredentials
       THEN /\ pc' = "returned"
            /\ ret' = <<>>
            /\ UNCHANGED << promises, offset, allPostings, hasNext, requests, delivered,
                            alerts, pageFailed >>
       ELSE IF credentialsList = Null
       THEN \* null.map(...) throws a TypeError: the call rejects
            /\ pc' = "failed"
            /\ UNCHANGED << promises, offset, allPostings, hasNext, requests, delivered,
                            alerts, pageFailed, ret >>
       ELSE /\ pc' = "awaiting"
            /\ pageFailed' = [i \in Stores |-> FALSE]
            /\ promises' = [i \in Stores |-> [state |-> "pending", value |-> <<>>]]
            /\ offset' = [i \in Stores |-> 0]
            /\ allPostings' = [i \in Stores |-> <<>>]
            /\ hasNext' = [i \in Stores |-> TRUE]
            /\ delivered' = [i \in Stores |-> 0]
            /\ requests' = [i \in Stores |-> <<0>>]
            /\ alerts' = [i \in Stores |-> <<>>]
            /\ UNCHANGED ret
    /\ UNCHANGED << credentialsList, endless >>
    /\ UNCHANGED << dashVars, appVars >>

\* Lines 108-114: Promise.all settles; flatten, sort, return.
Join ==
    /\ pc = "awaiting"
    /\ PromiseAll(promises) # "pending"
    /\ IF PromiseAll(promises) = "fulfilled"
       THEN /\ pc' = "returned"
            /\ ret' = sort(flat([i \in Stores |-> promises[i].value]))
       ELSE /\ pc' = "failed"
            /\ UNCHANGED ret
    /\ UNCHANGED << credentialsList, endless, promises, offset, allPostings, hasNext,
                    requests, alerts, delivered, pageFailed >>
    /\ UNCHANGED << dashVars, appVars >>

Next ==
    \/ Call
    \/ Join
    \/ \E i \in Stores : FetchRejects(i)
    \/ \E i \in Stores, r \in ErrorResponses : ErrorResponse(i, r[1], r[2])
    \/ \E i \in Stores : MalformedBody(i)
    \/ \E i \in Stores : MissingResult(i)
    \/ \E i \in Stores, has_next \in BOOLEAN :
           /\ has_next => MayHaveNext
           /\ Pending(i)
           /\ \E postings \in {Null} \cup { Some(p) : p \in PagesFor(i) } :
                  Page(i, postings, has_next)

Spec == Init /\ [][Next]_vars

TypeOK ==
    /\ pc \in {"idle", "awaiting", "returned", "failed"}
    /\ Requested <= Len(creds) * (SafetyLimit \div limit + 1)

---------------------------------------------------------------------------
(***************************************************************************)
(* Dashboard (src/components/Dashboard.tsx): the `stats` and `smartGroups` *)
(* memos, both pure derivations of the `orders` prop and, for the chart,   *)
(* of the clock.                                                           *)
(***************************************************************************)

(***************************************************************************)
(* Input domains of the Dashboard.                                         *)
(***************************************************************************)
Item(offer_id, name, price, currency_code, quantity) ==
    [offer_id |-> offer_id, name |-> name, price |-> price,
     currency_code |-> currency_code, quantity |-> quantity]

\* A line of financial_data.products.
Fin(price, payout) == [price |-> price, payout |-> payout]

\* An order as the Dashboard reads it.  financial_data is optional; when
\* present it is the list financial_data.products.
Posting(clientId, in_process_at, products, financial_data) ==
    [posting_number |-> 0, clientId |-> clientId, in_process_at |-> in_process_at,
     products |-> products, financial_data |-> financial_data]

OrderTemplates ==
    << Posting("A", "2024-01-02T00:00:00Z",
               << Item("A1", "Lamp", "100", "RUB", 1) >>, Null),
       Posting("B", "2024-01-01T00:00:00Z",
               << Item("A1", "Lamp v2", "25", "RUB", 2) >>, Null),
       Posting("A", "2024-01-02T03:00:00+03:00",
               << Item("7", "Mug", "50", "CNY", 1) >>, Null),
       Posting("B", "2024-01-02T00:00:00Z",
               << Item("10", "Cup", "100", "CNY", 1) >>, Some(<< Fin(70, 60) >>)),
       Posting("A", "2024-01-01T00:00:00Z",
               << Item("A1", "Lamp", "100", "RUB", 1),
                  Item("7", "Mug", "50", "RUB", 1) >>, Some(<< Fin(90, 80), Fin(40, 30) >>)),
       Posting("A", "2024-01-02T00:00:00Z", << >>, Null),
       Posting("B", "2024-01-02T00:00:00Z", << >>, Some(<< Fin(70, 70) >>)),
       Posting("A", "2024-01-02T00:00:00Z",
               << Item("B2", "Vase", "100", "RUB", 1) >>, Some(<< Fin(0, 0) >>)),
       Posting("B", "2023-12-10T09:00:00Z",
               << Item("B2", "Vase", "25", "USD", 1) >>, Null),
       Posting("A", "2024-01-01T00:00:00Z",
               << Item("10", "Cup", "50", "", 1) >>, Null) >>

\* The lists of at most MaxOrderSeq orders; an order's posting_number is its
\* position, so that two orders of one list are never the same order.
OrderLists ==
    UNION { { [k \in 1..n |-> [OrderTemplates[f[k]] EXCEPT !.posting_number = k]] :
                f \in [1..n -> DOMAIN OrderTemplates] } : n \in 0..MaxOrderSeq }

\* The browser's clock and time zone: a local calendar day (in days since
\* 2023-12-01), a local hour and a zone.
Clock(day, hour, tz) == [day |-> day, hour |-> hour, tz |-> tz]

Clocks ==
    { Clock(14, 12, "UTC"),              \* 2023-12-15 12:00
      Clock(32, 12, "UTC"),              \* 2024-01-02 12:00
      Clock(95, 12, "UTC"),              \* 2024-03-05 12:00
      Clock(123, 1, "Europe/Berlin") }   \* 2024-04-02 01:00

(***************************************************************************)
(* Date: local fields, UTC rendering.                                      *)
(***************************************************************************)
IsLeap(y) == (y % 4 = 0 /\ y % 100 # 0) \/ y % 400 = 0

DaysInMonth(y, m) ==
    CASE m = 2 -> IF IsLeap(y) THEN 29 ELSE 28
      [] m \in {4, 6, 9, 11} -> 30
      [] OTHER -> 31

\* The calendar date <<y, m, d>> that lies n days after the first of month m
\* of year y.
RECURSIVE DateFrom(_, _, _)
DateFrom(y, m, n) ==
    IF n < DaysInMonth(y, m) THEN <<y, m, n + 1>>
    ELSE IF m = 12 THEN DateFrom(y + 1, 1, n - DaysInMonth(y, m))
    ELSE DateFrom(y, m + 1, n - DaysInMonth(y, m))

DateOfDay(n) == DateFrom(2023, 12, n)

\* Hours east of UTC at a local day and hour.  Europe/Berlin moved from +1 to
\* +2 on 2024-03-31 (day 121), 02:00 local becoming 03:00.
UtcOffset(tz, day, hour) ==
    IF tz = "UTC" THEN 0
    ELSE IF day > 121 \/ (day = 121 /\ hour >= 3) THEN 2
    ELSE 1

\* d.setDate(d.getDate() - i): the local date moves by i days, the local
\* time of day stays.
setDate(d, i) == [d EXCEPT !.day = d.day - i]

\* The UTC calendar day of a clock value.
UtcDay(d) == (24 * d.day + d.hour - UtcOffset(d.tz, d.day, d.hour)) \div 24

\* d.toISOString().split('T')[0]
toISODate(d) == DateOfDay(UtcDay(d))

\* dateStr.substring(5)
MonthDay(date) == <<date[2], date[3]>>

\* in_process_at.split('T')[0]
DatePart(s) ==
    CASE s = "2024-01-01T00:00:00Z" -> <<2024, 1, 1>>
      [] s = "2024-01-02T00:00:00Z" -> <<2024, 1, 2>>
      [] s = "2024-01-02T03:00:00+03:00" -> <<2024, 1, 2>>
      [] s = "2023-12-10T09:00:00Z" -> <<2023, 12, 10>>

(***************************************************************************)
(* JavaScript objects used as dictionaries.  An object is the sequence of  *)
(* its [key, value] properties in property order: array-index keys first,  *)
(* in ascending numeric order, then the other keys in insertion order.     *)
(***************************************************************************)
\* The number an array-index key denotes; -1 for any other key.
ArrayIndex(key) ==
    CASE key = "7" -> 7
      [] key = "10" -> 10
      [] OTHER -> -1

ObjHas(obj, key) == \E e \in DOMAIN obj : obj[e].key = key

ObjGet(obj, key) == obj[CHOOSE e \in DOMAIN obj : obj[e].key = key].value

InsertAt(s, pos, x) == SubSeq(s, 1, pos - 1) \o <<x>> \o SubSeq(s, pos, Len(s))

\* obj[key] = value
ObjSet(obj, key, value) ==
    IF ObjHas(obj, key)
    THEN [e \in DOMAIN obj |->
            IF obj[e].key = key THEN [key |-> key, value |-> value] ELSE obj[e]]
    ELSE IF ArrayIndex(key) >= 0
    THEN LET before == { e \in DOMAIN obj :
                            /\ ArrayIndex(obj[e].key) >= 0
                            /\ ArrayIndex(obj[e].key) < ArrayIndex(key) }
         IN  InsertAt(obj, Cardinality(before) + 1, [key |-> key, value |-> value])
    ELSE Append(obj, [key |-> key, value |-> value])

ObjEntries(obj) == obj

ObjValues(obj) == [e \in DOMAIN obj |-> obj[e].value]

Front(s) == SubSeq(s, 1, Len(s) - 1)

Last(s) == s[Len(s)]

(***************************************************************************)
(* The `stats` memo.                                                       *)
(***************************************************************************)
\* parseFloat on the price strings of the input domain.
parseFloat(s) ==
    CASE s = "100" -> 100
      [] s = "50" -> 50
      [] s = "25" -> 25

RECURSIVE reduceSum(_)
reduceSum(xs) == IF xs = <<>> THEN 0 ELSE reduceSum(Front(xs)) + Last(xs)

\* order.products[0]?.currency_code || 'RUB'
OrderCurrency(order) ==
    LET code == IF Len(order.products) >= 1
                THEN Some(order.products[1].currency_code) ELSE Null
    IN  IF code = Null \/ code = Some("") THEN DefaultCurrency
        ELSE CHOOSE c \in code : TRUE

\* order.products.reduce((sum, p) => sum + parseFloat(p.price), 0)
UnitPriceSum(order) ==
    reduceSum([k \in DOMAIN order.products |-> parseFloat(order.products[k].price)])

\* order.financial_data?.products.reduce((sum, p) => sum + p.price, 0):
\* optional, absent when the order has no financial data.
FinancialSum(order) ==
    IF order.financial_data = Null THEN Null
    ELSE LET products == CHOOSE f \in order.financial_data : TRUE
         IN  Some(reduceSum([k \in DOMAIN products |-> products[k].price]))

\* financial sum || unit-price sum: the right operand is taken when the left
\* one is undefined or 0.
OrderTotal(order) ==
    IF FinancialSum(order) = Null \/ FinancialSum(order) = Some(0)
    THEN UnitPriceSum(order)
    ELSE CHOOSE t \in FinancialSum(order) : TRUE

\* order.in_process_at.split('T')[0]
OrderDate(order) == DatePart(order.in_process_at)

\* One iteration of orders.forEach on revenueByCurrency.
RevenueBucket(revenue, order) ==
    LET currency == OrderCurrency(order)
        old == IF ObjHas(revenue, currency) THEN ObjGet(revenue, currency)
               ELSE [amount |-> 0, count |-> 0]
    IN  ObjSet(revenue, currency,
               [amount |-> old.amount + OrderTotal(order), count |-> old.count + 1])

RECURSIVE RevenueByCurrency(_)
RevenueByCurrency(os) ==
    IF os = <<>> THEN <<>>
    ELSE RevenueBucket(RevenueByCurrency(Front(os)), Last(os))

\* Faulty variant: the cell is assigned, not added to.
DateBucketAssign(sales, order) ==
    LET date == OrderDate(order)
        currency == OrderCurrency(order)
        byCurrency == IF date \in DOMAIN sales THEN sales[date] ELSE <<>>
    IN  [d \in DOMAIN sales \cup {date} |->
            IF d = date
            THEN [c \in DOMAIN byCurrency \cup {currency} |->
                    IF c = currency THEN OrderTotal(order) ELSE byCurrency[c]]
            ELSE sales[d]]

\* One iteration of orders.forEach on salesByDateAndCurrency, a dictionary
\* that is only ever looked up: a function from dates to functions from
\* currencies to amounts.
DateBucket(sales, order) ==
    LET date == OrderDate(order)
        currency == OrderCurrency(order)
        byCurrency == IF date \in DOMAIN sales THEN sales[date] ELSE <<>>
        old == IF currency \in DOMAIN byCurrency THEN byCurrency[currency] ELSE 0
    IN  [d \in DOMAIN sales \cup {date} |->
            IF d = date
            THEN [c \in DOMAIN byCurrency \cup {currency} |->
                    IF c = currency THEN old + OrderTotal(order) ELSE byCurrency[c]]
            ELSE sales[d]]

RECURSIVE SalesByDateAndCurrency(_)
SalesByDateAndCurrency(os) ==
    IF os = <<>> THEN <<>>
    ELSE DateBucket(SalesByDateAndCurrency(Front(os)), Last(os))

\* Faulty variant: a later currency with an equal amount replaces the
\* earlier one.
DominantStepLastWins(best, entry) ==
    IF entry.value.amount >= best.maxRevenue
    THEN [maxRevenue |-> entry.value.amount, dominantCurrency |-> entry.key]
    ELSE best

\* One iteration of Object.entries(revenueByCurrency).forEach.
DominantStep(best, entry) ==
    IF entry.value.amount > best.maxRevenue
    THEN [maxRevenue |-> entry.value.amount, dominantCurrency |-> entry.key]
    ELSE best

RECURSIVE DominantFold(_)
DominantFold(entries) ==
    IF entries = <<>> THEN [maxRevenue |-> -1, dominantCurrency |-> DefaultCurrency]
    ELSE DominantStep(DominantFold(Front(entries)), Last(entries))

DominantCurrency(revenue) == DominantFold(ObjEntries(revenue)).dominantCurrency

\* salesByDateAndCurrency[dateStr]?.[dominantCurrency] || 0
ChartAmount(sales, dateStr, dominantCurrency) ==
    IF dateStr \in DOMAIN sales /\ dominantCurrency \in DOMAIN sales[dateStr]
    THEN sales[dateStr][dominantCurrency]
    ELSE 0

\* Faulty variant: the loop stops before today.
ChartDataShort(sales, dominantCurrency, clock) ==
    [j \in 1..ChartSpan |->
        LET dateStr == toISODate(setDate(clock, ChartSpan + 1 - j))
        IN  [date |-> MonthDay(dateStr),
             amount |-> ChartAmount(sales, dateStr, dominantCurrency),
             currency |-> dominantCurrency]]

\* for (let i = 14; i >= 0; i--): point j is the one pushed for i = 15 - j.
ChartData(sales, dominantCurrency, clock) ==
    [j \in 1..(ChartSpan + 1) |->
        LET dateStr == toISODate(setDate(clock, ChartSpan + 1 - j))
        IN  [date |-> MonthDay(dateStr),
             amount |-> ChartAmount(sales, dateStr, dominantCurrency),
             currency |-> dominantCurrency]]

Stats(os, clock) ==
    LET revenueByCurrency == RevenueByCurrency(os)
        dominantCurrency == DominantCurrency(revenueByCurrency)
    IN  [totalOrders |-> Len(os),
         revenueByCurrency |-> revenueByCurrency,
         chartData |-> ChartData(SalesByDateAndCurrency(os), dominantCurrency, clock),
         dominantCurrency |-> dominantCurrency]

\* Math.round on a quotient of non-negative integers: halves go up.
MathRoundDiv(a, c) == (2 * a + c) \div (2 * c)

\* Faulty variant: the quotient is truncated.
AverageOrderValueTruncated(bucket) ==
    IF bucket.count > 0 THEN bucket.amount \div bucket.count ELSE 0

\* count > 0 ? Math.round(amount / count) : 0
AverageOrderValue(bucket) ==
    IF bucket.count > 0 THEN MathRoundDiv(bucket.amount, bucket.count) ELSE 0

\* currencyKeys.map(curr => ...): one line per bucket, in property order.
AverageCard(st) ==
    [e \in DOMAIN st.revenueByCurrency |->
        [curr |-> st.revenueByCurrency[e].key,
         avg |-> AverageOrderValue(st.revenueByCurrency[e].value)]]

(***************************************************************************)
(* The `smartGroups` memo.                                                 *)
(***************************************************************************)
\* Faulty variant: an order is grouped by its first line item whenever it
\* has one.
IsSingleItemOrMore(order) == Len(order.products) >= 1

\* order.products.length === 1
IsSingleItem(order) == Len(order.products) = 1

\* Faulty variant: the key is the product's name.
GroupKeyByName(product) == product.name

\* const key = product.offer_id
GroupKey(product) == product.offer_id

\* Faulty variant: the group's product and currency are those of its latest
\* member.
GroupStepLatestProduct(groups, order) ==
    IF IsSingleItem(order)
    THEN LET product == order.products[1]
             key == GroupKey(product)
             members == IF ObjHas(groups, key) THEN ObjGet(groups, key).orders
                        ELSE <<>>
         IN  ObjSet(groups, key,
                    [product |-> product, orders |-> Append(members, order),
                     currency |-> IF product.currency_code = ""
                                  THEN DefaultCurrency
                                  ELSE product.currency_code])
    ELSE groups

\* One iteration of orders.forEach on groups.
GroupStep(groups, order) ==
    IF IsSingleItem(order)
    THEN LET product == order.products[1]
             key == GroupKey(product)
             old == IF ObjHas(groups, key) THEN ObjGet(groups, key)
                    ELSE [product |-> product, orders |-> <<>>,
                          currency |-> IF product.currency_code = ""
                                       THEN DefaultCurrency
                                       ELSE product.currency_code]
         IN  ObjSet(groups, key, [old EXCEPT !.orders = Append(@, order)])
    ELSE groups

RECURSIVE Groups(_)
Groups(os) ==
    IF os = <<>> THEN <<>>
    ELSE GroupStep(Groups(Front(os)), Last(os))

\* Faulty variant: smaller groups first.
compareGroupsAscending(a, b) == Len(a.orders) - Len(b.orders)

\* (a, b) => b.orders.length - a.orders.length
compareGroups(a, b) == Len(b.orders) - Len(a.orders)

\* Array.prototype.sort is stable: x goes behind every element that does not
\* compare greater than it.
RECURSIVE InsertGroup(_, _)
InsertGroup(sorted, x) ==
    IF sorted = <<>> THEN <<x>>
    ELSE IF compareGroups(Last(sorted), x) <= 0 THEN Append(sorted, x)
    ELSE Append(InsertGroup(Front(sorted), x), Last(sorted))

RECURSIVE sortGroups(_)
sortGroups(gs) ==
    IF gs = <<>> THEN <<>>
    ELSE InsertGroup(sortGroups(Front(gs)), Last(gs))

\* Object.values(groups).sort(...)
SmartGroups(os) == sortGroups(ObjValues(Groups(os)))

(***************************************************************************)
(* The picking list: packed state, group cards and the exported file.      *)
(***************************************************************************)
\* A line item as the picking list reads it: the name is a sequence of
\* characters, the quantity is optional.
PickItem(offer_id, sku, name, price, currency_code, quantity) ==
    [offer_id |-> offer_id, sku |-> sku, name |-> name, price |-> price,
     currency_code |-> currency_code, quantity |-> quantity]

\* An order with the posting number the remote service gave it.
PickPosting(clientId, posting_number, products) ==
    [Posting(clientId, "2024-01-02T00:00:00Z", products, Null)
        EXCEPT !.posting_number = posting_number]

Quote == "\""
Comma == ","
NewLine == "\n"

\* Orders of two stores; the same posting number occurs in both stores.
PickTemplates ==
    << PickPosting("A", "P1",
           << PickItem("A1", "111", <<"L">>, "100", "RUB", Some(2)) >>),
       PickPosting("B", "P1",
           << PickItem("A1", "111", <<"L", Quote, "x", Quote>>, "25", "RUB", Null) >>),
       PickPosting("A", "P2",
           << PickItem("7", "222", <<Quote, Quote, "M", Comma, NewLine>>, "50", "CNY",
                       Null) >>),
       PickPosting("B", "P3",
           << PickItem("A1", "111", <<"L">>, "50", "", Some(3)) >>),
       PickPosting("A", "P3",
           << PickItem("A1", "111", <<"L">>, "100", "RUB", Some(1)),
              PickItem("7", "222", <<"M">>, "50", "RUB", Some(1)) >>) >>

PostingNumbers == { PickTemplates[t].posting_number : t \in DOMAIN PickTemplates }

\* The lists of at most MaxOrderSeq different orders.
PickLists ==
    UNION { { [k \in 1..n |-> PickTemplates[f[k]]] :
                f \in { h \in [1..n -> DOMAIN PickTemplates] :
                          \A k, l \in 1..n : h[k] = h[l] => k = l } } :
            n \in 0..Min(MaxOrderSeq, Len(PickTemplates)) }

\* packedOrderIds.has(o.posting_number)
IsPacked(order, packed) == order.posting_number \in packed

\* Faulty variant: every packed posting number counts once.
PackedCountDistinct(group, packed) ==
    Cardinality({ group.orders[m].posting_number : m \in DOMAIN group.orders } \cap packed)

\* group.orders.filter(o => packedOrderIds.has(o.posting_number)).length
PackedCount(group, packed) ==
    LET Test(o) == IsPacked(o, packed) IN Len(SelectSeq(group.orders, Test))

\* group.orders.length - packedCount
UnpackedCount(group, packed) == Len(group.orders) - PackedCount(group, packed)

\* smartGroups.map((group, index) => ...): the counts each card shows.
GroupCards(groups, packed) ==
    [g \in DOMAIN groups |->
        [packedCount |-> PackedCount(groups[g], packed),
         unpackedCount |-> UnpackedCount(groups[g], packed),
         allPacked |-> UnpackedCount(groups[g], packed) = 0]]

\* Faulty variant: a member without quantity adds nothing.
TotalQtyNoDefault(group) ==
    reduceSum([m \in DOMAIN group.orders |->
        LET q == group.orders[m].products[1].quantity
        IN  IF q = Null THEN 0 ELSE CHOOSE n \in q : TRUE])

\* group.orders.reduce((sum, o) => sum + (o.products[0].quantity || 1), 0)
TotalQty(group) ==
    reduceSum([m \in DOMAIN group.orders |->
        LET q == group.orders[m].products[1].quantity
        IN  IF q = Null \/ q = Some(0) THEN 1 ELSE CHOOSE n \in q : TRUE])

\* Faulty variant: the name is written as it is.
EscapeQuotesNot(name) == name

\* name.replace(/"/g, '""')
RECURSIVE EscapeQuotes(_)
EscapeQuotes(name) ==
    IF name = <<>> THEN <<>>
    ELSE (IF Head(name) = Quote THEN <<Quote, Quote>> ELSE <<Head(name)>>)
           \o EscapeQuotes(Tail(name))

\* The header line of the file (the column titles, in English here).
CsvHeader ==
    << "BOM", "Offer ID", Comma, "SKU", Comma, "Name", Comma, "Price", Comma,
       "Currency", Comma, "Total quantity", Comma, "Unpacked orders", Comma,
       "Packed orders", NewLine >>

\* The template literal of one row.  The text is a sequence of pieces: the
\* characters of the name, the separators, and one piece for every other
\* field.
CsvRow(group, packed) ==
    << group.product.offer_id, Comma, group.product.sku, Comma, Quote >>
        \o EscapeQuotes(group.product.name)
        \o << Quote, Comma, group.product.price, Comma, group.currency, Comma,
              ToString(TotalQty(group)), Comma,
              ToString(UnpackedCount(group, packed)), Comma,
              ToString(PackedCount(group, packed)), NewLine >>

RECURSIVE CsvRows(_, _)
CsvRows(groups, packed) ==
    IF groups = <<>> THEN <<>>
    ELSE CsvRows(Front(groups), packed) \o CsvRow(Last(groups), packed)

\* csvContent
CsvContent(groups, packed) == CsvHeader \o CsvRows(groups, packed)

\* Faulty variant: the selection is cleared by every call.
togglePackedStatusClearing(ids, status) ==
    [packed |-> IF status THEN packedOrderIds \cup Range(ids)
                ELSE packedOrderIds \ Range(ids),
     selected |-> IF Len(ids) > 0 THEN {} ELSE selectedOrders]

\* togglePackedStatus(ids, status): the new packed set and selection.
togglePackedStatus(ids, status) ==
    [packed |-> IF status THEN packedOrderIds \cup Range(ids)
                ELSE packedOrderIds \ Range(ids),
     selected |-> IF Len(ids) > 1 THEN {} ELSE selectedOrders]

(***************************************************************************)
(* The Dashboard as a state machine: a render computes both memos and the  *)
(* cards from the current `orders`; a new `orders` prop makes them stale.  *)
(* The parent starts with no orders and passes the loaded list once.       *)
(***************************************************************************)
InitDashboard ==
    /\ credentialsList = Null
    /\ endless = FALSE
    /\ pc = "idle"
    /\ promises = <<>>
    /\ offset = <<>>
    /\ allPostings = <<>>
    /\ hasNext = <<>>
    /\ requests = <<>>
    /\ alerts = <<>>
    /\ ret = <<>>
    /\ delivered = <<>>
    /\ pageFailed = <<>>
    /\ orders = <<>>
    /\ now \in Clocks
    /\ stats = Null
    /\ smartGroups = Null
    /\ averages = Null
    /\ salesByDateAndCurrency = Null
    /\ PickIdle
    /\ LabelIdle
    /\ AppIdle

Render ==
    /\ stats = Null
    /\ stats' = Some(Stats(orders, now))
    /\ smartGroups' = Some(SmartGroups(orders))
    /\ averages' = Some(AverageCard(CHOOSE st \in stats' : TRUE))
    /\ salesByDateAndCurrency' = Some(SalesByDateAndCurrency(orders))
    /\ groupCards' = Some(GroupCards(SmartGroups(orders), packedOrderIds))
    /\ UNCHANGED << orders, now, packedOrderIds, selectedOrders, exported >>
    /\ UNCHANGED << aggVars, labelVars, appVars >>

\* The parent's first load replaces the initial empty list.
ReceiveOrders ==
    /\ stats # Null
    /\ orders = <<>>
    /\ \E os \in OrderLists : os # orders /\ orders' = os
    /\ stats' = Null
    /\ smartGroups' = Null
    /\ averages' = Null
    /\ salesByDateAndCurrency' = Null
    /\ groupCards' = Null
    /\ UNCHANGED << now, packedOrderIds, selectedOrders, exported >>
    /\ UNCHANGED << aggVars, labelVars, appVars >>

NextDashboard ==
    \/ Render
    \/ ReceiveOrders

SpecDashboard == InitDashboard /\ [][NextDashboard]_vars

(***************************************************************************)
(* The picking list as a state machine: the orders are loaded, the packed  *)
(* set is the one saved in localStorage; the user selects, marks and       *)
(* exports.                                                                *)
(***************************************************************************)
InitPicking ==
    /\ credentialsList = Null
    /\ endless = FALSE
    /\ AggIdle
    /\ orders \in PickLists
    /\ now = Clock(32, 12, "UTC")
    /\ stats = Null
    /\ smartGroups = Null
    /\ averages = Null
    /\ salesByDateAndCurrency = Null
    /\ packedOrderIds \in SUBSET PostingNumbers
    /\ selectedOrders = {}
    /\ groupCards = Null
    /\ exported = Null
    /\ LabelIdle
    /\ AppIdle

RECURSIVE ArrayFrom(_)
ArrayFrom(set) ==
    IF set = {} THEN <<>>
    ELSE LET x == CHOOSE y \in set : TRUE IN <<x>> \o ArrayFrom(set \ {x})

\* toggleSelect(order.posting_number) on the row of orders[k].
ToggleSelect(k) ==
    LET id == orders[k].posting_number IN
    /\ stats # Null
    /\ selectedOrders' = IF id \in selectedOrders THEN selectedOrders \ {id}
                         ELSE selectedOrders \cup {id}
    /\ UNCHANGED << orders, now, stats, smartGroups, averages,
                    salesByDateAndCurrency, packedOrderIds,
                    groupCards, exported >>
    /\ UNCHANGED << aggVars, labelVars, appVars >>

ToggleSelectAll ==
    /\ stats # Null
    /\ selectedOrders' = IF Cardinality(selectedOrders) = Len(orders) THEN {}
                         ELSE { orders[k].posting_number : k \in DOMAIN orders }
    /\ UNCHANGED << orders, now, stats, smartGroups, averages,
                    salesByDateAndCurrency, packedOrderIds,
                    groupCards, exported >>
    /\ UNCHANGED << aggVars, labelVars, appVars >>

\* A call of togglePackedStatus and the render that follows it.
CallTogglePacked(ids, status) ==
    LET r == togglePackedStatus(ids, status) IN
    /\ packedOrderIds' = r.packed
    /\ selectedOrders' = r.selected
    /\ groupCards' = Some(GroupCards(CHOOSE g \in smartGroups : TRUE, r.packed))
    /\ UNCHANGED << orders, now, stats, smartGroups, averages,
                    salesByDateAndCurrency, exported >>
    /\ UNCHANGED << aggVars, labelVars, appVars >>

\* The button of the row of orders[k]: togglePackedStatus([id], !isPacked).
TogglePackedOrder(k) ==
    /\ stats # Null
    /\ CallTogglePacked(<<orders[k].posting_number>>,
                        ~IsPacked(orders[k], packedOrderIds))

\* The two buttons of the selection bar.
MarkSelected(status) ==
    /\ stats # Null
    /\ selectedOrders # {}
    /\ CallTogglePacked(ArrayFrom(selectedOrders), status)

\* The button of the card of group g, disabled when all its orders are packed.
MarkGroupPacked(g) ==
    /\ stats # Null
    /\ g \in DOMAIN (CHOOSE gs \in smartGroups : TRUE)
    /\ LET group == (CHOOSE gs \in smartGroups : TRUE)[g] IN
        /\ UnpackedCount(group, packedOrderIds) # 0
        /\ CallTogglePacked([m \in DOMAIN group.orders |-> group.orders[m].posting_number],
                            TRUE)

\* handleExportSmartGroups.  packedAt is history: the packed set the file was
\* made from.
Export ==
    /\ stats # Null
    /\ (CHOOSE gs \in smartGroups : TRUE) # <<>>
    /\ exported' = Some([csv |-> CsvContent(CHOOSE gs \in smartGroups : TRUE,
                                            packedOrderIds),
                         packedAt |-> packedOrderIds])
    /\ UNCHANGED << orders, now, stats, smartGroups, averages,
                    salesByDateAndCurrency, packedOrderIds,
                    selectedOrders, groupCards >>
    /\ UNCHANGED << aggVars, labelVars, appVars >>

NextPicking ==
    \/ Render
    \/ \E k \in DOMAIN orders : ToggleSelect(k)
    \/ ToggleSelectAll
    \/ \E k \in DOMAIN orders : TogglePackedOrder(k)
    \/ \E status \in BOOLEAN : MarkSelected(status)
    \/ \E g \in 1..MaxOrderSeq + 1 : MarkGroupPacked(g)
    \/ Export

SpecPicking == InitPicking /\ [][NextPicking]_vars

(***************************************************************************)
(* Label download: handleDownloadLabels (Dashboard.tsx) and                *)
(* fetchPackageLabel (ozonService.ts).                                     *)
(***************************************************************************)
Credential(clientId, apiKey) == [clientId |-> clientId, apiKey |-> apiKey]

\* What getCredentialsList may find in localStorage.
StoredCredLists ==
    { << >>,
      << Credential("A", "ka") >>,
      << Credential("A", "ka"), Credential("B", "kb") >>,
      << Credential("B", "kb"), Credential("A", "ka") >>,
      << Credential("A", "ka"), Credential("A", "ka2") >> }

\* The loaded orders: of stores A and B, of a store C that is no longer in
\* the credential list, one without clientId (""), and two of different
\* stores with the same posting number.
LabelOrders ==
    << PickPosting("A", "P1", << >>), PickPosting("B", "P2", << >>),
       PickPosting("C", "P3", << >>), PickPosting("", "P4", << >>),
       PickPosting("A", "P5", << >>), PickPosting("B", "P5", << >>) >>

\* The id lists the buttons pass: posting numbers of loaded orders and one
\* ("P9") of an order that is no longer loaded.
LabelSelections ==
    { << >>, <<"P1">>, <<"P2">>, <<"P3">>, <<"P4">>, <<"P9">>,
      <<"P1", "P2">>, <<"P2", "P1">>, <<"P2", "P5">>, <<"P3", "P1">>,
      <<"P4", "P2">>, <<"P1", "P2", "P3">>, <<"P2", "P9", "P5", "P1">> }

\* The answers to a label request.  kind "reject": fetch() rejects; "ok":
\* response.ok with a body; "blob": response.ok but reading the body fails;
\* "error": a non-ok response whose body is JSON with a message ("": none) or
\* is not JSON.
LabelResponses ==
    { [kind |-> "ok", status |-> "200", json |-> FALSE, message |-> "", text |-> "%PDF"],
      [kind |-> "reject", status |-> "", json |-> FALSE, message |-> "", text |-> ""],
      [kind |-> "blob", status |-> "200", json |-> FALSE, message |-> "", text |-> ""],
      [kind |-> "error", status |-> "400", json |-> TRUE, message |-> "msg",
       text |-> "{msg}"],
      [kind |-> "error", status |-> "404", json |-> TRUE, message |-> "",
       text |-> "{other}"],
      [kind |-> "error", status |-> "502", json |-> FALSE, message |-> "",
       text |-> "<html>"] }

\* Faulty variant: always the first credential.
ChooseCredentialFirst(credsList, targetClientId) == credsList[1]

\* credentialsList.find(c => c.clientId === targetClientId) || credentialsList[0]
\* The target is optional.
ChooseCredential(credsList, targetClientId) ==
    LET matches == { k \in DOMAIN credsList :
                        Some(credsList[k].clientId) = targetClientId }
    IN  IF matches # {}
        THEN credsList[CHOOSE k \in matches : \A l \in matches : k <= l]
        ELSE credsList[1]

\* Faulty variant: a failed request yields a substitute document.
FetchPackageLabelMock(response) ==
    IF response.kind = "ok"
    THEN [threw |-> FALSE, value |-> <<"blob", response.text>>]
    ELSE [threw |-> FALSE, value |-> <<"blob", "mock">>]

\* Lines 126-153, after the response: what fetchPackageLabel returns or
\* throws.
FetchPackageLabel(response) ==
    CASE response.kind = "ok" -> [threw |-> FALSE, value |-> <<"blob", response.text>>]
      [] response.kind = "reject" -> [threw |-> TRUE, value |-> <<FetchFailedMessage>>]
      [] response.kind = "blob" -> [threw |-> TRUE, value |-> <<FetchFailedMessage>>]
      [] response.kind = "error" ->
            [threw |-> TRUE,
             value |-> <<"Failed to fetch labels", response.status,
                         IF ~response.json THEN "statusText"
                         ELSE IF response.message # "" THEN response.message
                         ELSE response.text>>]

\* new Map(orders.map(o => [o.posting_number, o])).get(id): the last order
\* with that posting number, if any.
OrderById(os, id) ==
    LET at == { k \in DOMAIN os : os[k].posting_number = id }
    IN  IF at = {} THEN Null
        ELSE Some(os[CHOOSE k \in at : \A l \in at : l <= k])

\* The store key of an id: the order's clientId, or the first credential's
\* when the order is unknown or has none.
LabelStoreOf(os, credsList, id) ==
    LET order == OrderById(os, id)
    IN  IF order # Null /\ (CHOOSE o \in order : TRUE).clientId # ""
        THEN (CHOOSE o \in order : TRUE).clientId
        ELSE credsList[1].clientId

\* ids.forEach(...): the ids grouped by store key.
RECURSIVE LabelGroups(_, _, _)
LabelGroups(os, credsList, ids) ==
    IF ids = <<>> THEN <<>>
    ELSE LET groups == LabelGroups(os, credsList, Front(ids))
             cid == LabelStoreOf(os, credsList, Last(ids))
             old == IF ObjHas(groups, cid) THEN ObjGet(groups, cid) ELSE <<>>
         IN  ObjSet(groups, cid, Append(old, Last(ids)))

\* The request fetchPackageLabel sends for a batch.  response, outcome and
\* result are history, filled in when the request is answered.
LabelRequest(credsList, batch) ==
    [cred |-> ChooseCredential(credsList, Some(batch.key)),
     target |-> batch.key, ids |-> batch.value,
     response |-> Null, outcome |-> "pending", result |-> <<>>]

InitLabels ==
    /\ credentialsList = Null
    /\ endless = FALSE
    /\ AggIdle
    /\ orders = LabelOrders
    /\ now = Clock(32, 12, "UTC")
    /\ stats = Null
    /\ smartGroups = Null
    /\ averages = Null
    /\ salesByDateAndCurrency = Null
    /\ PickIdle
    /\ storedCreds \in StoredCredLists
    /\ downloading = FALSE
    /\ labelPc = "idle"
    /\ labelBatches = <<>>
    /\ labelRequests = <<>>
    /\ labelDownloads = <<>>
    /\ labelAlerts = 0
    /\ AppIdle

\* handleDownloadLabels(ids) up to the first await: the request of the first
\* batch is sent.  The histories are those of the current run.
StartDownload(ids) ==
    /\ labelPc = "idle"
    /\ storedCreds # <<>>
    /\ ids # <<>>
    /\ LET entries == ObjEntries(LabelGroups(orders, storedCreds, ids)) IN
        /\ downloading' = TRUE
        /\ labelPc' = "fetching"
        /\ labelRequests' = << LabelRequest(storedCreds, Head(entries)) >>
        /\ labelBatches' = Tail(entries)
        /\ labelDownloads' = <<>>
        /\ labelAlerts' = 0
    /\ UNCHANGED << orders, now, stats, smartGroups, averages,
                    salesByDateAndCurrency, pickVars, storedCreds >>
    /\ UNCHANGED << aggVars, appVars >>

\* The label button of the row of orders[k] (line 510).
DownloadRowLabel(k) == StartDownload(<< orders[k].posting_number >>)

\* The pending label request is answered.  A document is handed to the
\* browser and the loop waits 500 ms; an error ends the loop in the catch
\* block: alert, then setDownloading(false).
LabelAnswer(response) ==
    LET out == FetchPackageLabel(response)
        r == Len(labelRequests)
    IN
    /\ labelPc = "fetching"
    /\ IF out.threw
       THEN /\ labelRequests' = [labelRequests EXCEPT
                                   ![r].response = Some(response),
                                   ![r].outcome = "error",
                                   ![r].result = out.value]
            /\ labelAlerts' = labelAlerts + 1
            /\ downloading' = FALSE
            /\ labelPc' = "idle"
            /\ UNCHANGED labelDownloads
       ELSE /\ labelRequests' = [labelRequests EXCEPT
                                   ![r].response = Some(response),
                                   ![r].outcome = "document",
                                   ![r].result = out.value]
            /\ labelDownloads' = Append(labelDownloads,
                                        [request |-> r,
                                         clientId |-> labelRequests[r].target,
                                         blob |-> out.value])
            /\ labelPc' = "pausing"
            /\ UNCHANGED << labelAlerts, downloading >>
    /\ UNCHANGED << orders, now, stats, smartGroups, averages,
                    salesByDateAndCurrency, pickVars, storedCreds,
                    labelBatches >>
    /\ UNCHANGED << aggVars, appVars >>

\* The 500 ms timer fires: the next batch is requested, or the loop is over
\* and the finally block runs.
LabelTimer ==
    /\ labelPc = "pausing"
    /\ IF labelBatches # <<>>
       THEN /\ labelRequests' = Append(labelRequests,
                                       LabelRequest(storedCreds, Head(labelBatches)))
            /\ labelBatches' = Tail(labelBatches)
            /\ labelPc' = "fetching"
            /\ UNCHANGED downloading
       ELSE /\ downloading' = FALSE
            /\ labelPc' = "idle"
            /\ UNCHANGED << labelRequests, labelBatches >>
    /\ UNCHANGED << orders, now, stats, smartGroups, averages,
                    salesByDateAndCurrency, pickVars, storedCreds,
                    labelDownloads, labelAlerts >>
    /\ UNCHANGED << aggVars, appVars >>

NextLabels ==
    \/ \E ids \in LabelSelections : StartDownload(ids)
    \/ \E k \in DOMAIN orders : DownloadRowLabel(k)
    \/ \E response \in LabelResponses : LabelAnswer(response)
    \/ LabelTimer

SpecLabels == InitLabels /\ [][NextLabels]_vars

(***************************************************************************)
(* App (src/App.tsx): credentials, view, and the loadData runs.            *)
(***************************************************************************)
\* What fetchAggregatedOrders may resolve with for a credential list: the
\* stores that fail or are empty contribute nothing, the others one order.
LoadResults(cs) ==
    { SelectSeq([k \in DOMAIN cs |-> [clientId |-> cs[k].clientId, posting_number |-> k]],
                LAMBDA o : o.posting_number \in answered)
      : answered \in SUBSET DOMAIN cs }

InitApp ==
    /\ credentialsList = Null
    /\ endless = FALSE
    /\ AggIdle
    /\ orders = <<>>
    /\ now = Clock(32, 12, "UTC")
    /\ stats = Null
    /\ smartGroups = Null
    /\ averages = Null
    /\ salesByDateAndCurrency = Null
    /\ PickIdle
    /\ storedCreds \in StoredCredLists
    /\ downloading = FALSE
    /\ labelPc = "idle"
    /\ labelBatches = <<>>
    /\ labelRequests = <<>>
    /\ labelDownloads = <<>>
    /\ labelAlerts = 0
    /\ AppIdle

\* The effect of lines 58-63 after a render in which the credentials or the
\* view changed: loadData(cs) runs up to its await.
LoadEffect(cs, view) ==
    IF Len(cs) > 0 /\ view = "dashboard"
    THEN /\ Len(loads) < MaxLoads
         /\ loading' = TRUE
         /\ loads' = Append(loads, [creds |-> cs, state |-> "pending", data |-> <<>>])
    ELSE UNCHANGED << loading, loads >>

\* Lines 18-42 and the first run of the effect of lines 58-63.
Mount ==
    /\ ~mounted
    /\ mounted' = TRUE
    /\ IF storedCreds # <<>>
       THEN /\ appCredentials' = storedCreds
            /\ UNCHANGED currentView
       ELSE /\ currentView' = "settings"
            /\ UNCHANGED appCredentials
    /\ LoadEffect(appCredentials', currentView')
    /\ UNCHANGED loggedOut
    /\ UNCHANGED << aggVars, dashVars >>

\* The sidebar's onChangeView and the button of line 121.
ChangeView(view) ==
    /\ mounted
    /\ view # currentView
    /\ currentView' = view
    /\ LoadEffect(appCredentials, view)
    /\ UNCHANGED << mounted, appCredentials, loggedOut >>
    /\ UNCHANGED << aggVars, dashVars >>

\* handleSaveSettings, lines 65-69; the Settings view is the only caller.
SaveSettings(cs) ==
    /\ mounted
    /\ currentView = "settings"
    /\ appCredentials' = cs
    /\ storedCreds' = cs
    /\ currentView' = "dashboard"
    /\ LoadEffect(cs, "dashboard")
    /\ loggedOut' = FALSE
    /\ UNCHANGED mounted
    /\ UNCHANGED << orders, now, stats, smartGroups, averages,
                    salesByDateAndCurrency, pickVars, downloading,
                    labelPc, labelBatches, labelRequests, labelDownloads, labelAlerts >>
    /\ UNCHANGED aggVars

\* handleLogout, lines 71-77.
Logout ==
    /\ mounted
    /\ storedCreds' = <<>>
    /\ appCredentials' = <<>>
    /\ orders' = <<>>
    /\ currentView' = "settings"
    /\ loggedOut' = TRUE
    /\ UNCHANGED << mounted, loading, loads >>
    /\ UNCHANGED << now, stats, smartGroups, averages,
                    salesByDateAndCurrency, pickVars, downloading,
                    labelPc, labelBatches, labelRequests, labelDownloads, labelAlerts >>
    /\ UNCHANGED aggVars

\* Line 49: setOrders(data), whichever run this is.
ApplyResult(k, data) == data

\* Lines 48-54: the await of run k resolves with data.
FinishLoad(k, data) ==
    /\ loads[k].state = "pending"
    /\ orders' = ApplyResult(k, data)
    /\ loading' = FALSE
    /\ loads' = [loads EXCEPT ![k].state = "done", ![k].data = data]
    /\ UNCHANGED << mounted, appCredentials, currentView, loggedOut >>
    /\ UNCHANGED << now, stats, smartGroups, averages,
                    salesByDateAndCurrency, pickVars, labelVars >>
    /\ UNCHANGED aggVars

NextApp ==
    \/ Mount
    \/ \E view \in {"dashboard", "settings"} : ChangeView(view)
    \/ \E cs \in StoredCredLists : SaveSettings(cs)
    \/ Logout
    \/ \E k \in DOMAIN loads : \E data \in LoadResults(loads[k].creds) : FinishLoad(k, data)

SpecApp == InitApp /\ [][NextApp]_vars

---------------------------------------------------------------------------
(***************************************************************************)
(* Properties.                                                             *)
(***************************************************************************)
RECURSIVE SumOver(_, _)
SumOver(f, S) ==
    IF S = {} THEN 0
    ELSE LET x == CHOOSE y \in S : TRUE IN f[x] + SumOver(f, S \ {x})

\* Stores whose fetch has been started.
Launched == DOMAIN promises
Succeeded(i) == ~Pending(i) /\ ~pageFailed[i]
\* Entries of the result carrying store tag id.
CountTagged(id) == Cardinality({ k \in DOMAIN ret : ret[k].clientId = id })
At(p) == getTime(p.in_process_at)
MaxRequests == SafetyLimit \div limit + 1

\* C1: when the run has returned, every store whose fetch failed has raised
\* exactly one warning, naming that store; a store whose fetch succeeded has
\* raised none, and the result holds at least as many orders with its tag as
\* were delivered to it.
C1_FailureIsolated ==
    pc = "returned" =>
        \A i \in Launched :
            /\ pageFailed[i] =>
                   Len(alerts[i]) = 1 /\ alerts[i][1].clientId = creds[i]
            /\ ~pageFailed[i] =>
                   alerts[i] = <<>> /\ CountTagged(creds[i]) >= delivered[i]

C1_Witness ==
    /\ pc = "returned"
    /\ creds = <<"A", "B">>
    /\ pageFailed[1] /\ Len(requests[1]) >= 2
    /\ ~pageFailed[2] /\ delivered[2] >= 1
    /\ SumLen(alerts) = 1

\* C2: fetchAggregatedOrders leaves its await only when no per-store fetch is
\* pending any more, and a step in which one store's fetch fails changes
\* nothing of any other store's fetch.
C2_Settled ==
    pc \in {"returned", "failed"} => \A i \in Launched : ~Pending(i)

C2_FailureStep ==
    \A i \in DOMAIN pageFailed :
        (~pageFailed[i] /\ pageFailed'[i]) =>
            \A j \in Launched \ {i} :
                /\ promises'[j] = promises[j]
                /\ requests'[j] = requests[j]
                /\ offset'[j] = offset[j]
                /\ allPostings'[j] = allPostings[j]
                /\ hasNext'[j] = hasNext[j]

C2_JoinAll == []C2_Settled /\ [][C2_FailureStep]_vars

C2_Witness ==
    /\ pc = "returned"
    /\ Len(creds) = 2
    /\ pageFailed[1] /\ Len(requests[1]) = 1
    /\ ~pageFailed[2] /\ Len(requests[2]) >= 2 /\ delivered[2] >= 1

\* C3: no page failure rejects a store's promise or the aggregation: a failed
\* store's promise is fulfilled and one warning names the store.
C3_NeverFails ==
    /\ pc # "failed"
    /\ \A i \in Launched :
           /\ promises[i].state # "rejected"
           /\ pageFailed[i] =>
                  /\ promises[i].state = "fulfilled"
                  /\ Len(alerts[i]) = 1
                  /\ alerts[i][1].clientId = creds[i]

C3_Witness ==
    /\ pc = "returned"
    /\ Len(creds) = 2
    /\ pageFailed[1] /\ alerts[1][1].message = <<BodyUsedMessage>>
    /\ pageFailed[2] /\ alerts[2][1].message = <<FetchFailedMessage>>

\* C4: a store with a failed page request contributes no order: its fetch
\* yields the empty list, and no order of the result carries the tag of a
\* client id all of whose fetches failed.
C4_FailedStoreEmpty ==
    \A i \in Launched :
        pageFailed[i] =>
            /\ promises[i].value = <<>>
            /\ (pc = "returned"
                  /\ \A j \in Launched : creds[j] = creds[i] => pageFailed[j])
                   => CountTagged(creds[i]) = 0

C4_Witness ==
    /\ pc = "returned"
    /\ \E i \in Launched : pageFailed[i] /\ delivered[i] >= 1 /\ Len(requests[i]) >= 2

\* C5: when no page request failed, the result has as many orders as the
\* transport delivered over all pages of all stores.
C5_CountPreserved ==
    (pc = "returned" /\ \A i \in Launched : ~pageFailed[i]) => Len(ret) = Served

C5_Witness ==
    /\ pc = "returned"
    /\ Len(creds) = 2
    /\ \A i \in Launched : ~pageFailed[i] /\ delivered[i] >= 1
    /\ Len(requests[1]) >= 2
    /\ Len(ret) = 2

\* C6: the result is sorted non-increasing by creation time.
C6_SortedDescending ==
    pc = "returned" =>
        \A k \in 1..(Len(ret) - 1) : At(ret[k]) >= At(ret[k + 1])

C6_Witness ==
    /\ pc = "returned"
    /\ Len(ret) >= 2
    /\ At(ret[1]) > At(ret[Len(ret)])
    /\ ret # flat([i \in Stores |-> promises[i].value])

\* C7: with an empty or absent credential list the call neither fails nor
\* waits, issues no page request and returns the empty list.
C7_NoCredentials ==
    (credentialsList = Null \/ creds = <<>>) =>
        /\ pc \in {"idle", "returned"}
        /\ requests = <<>>
        /\ ret = <<>>

C7_Witness == pc = "returned" /\ credentialsList = Null

\* C8: every order of the result carries the client id of a credential of
\* the list, and for every client id the result holds exactly as many orders
\* with that tag as were delivered to the successful fetches of that id.
C8_Tagged ==
    pc = "returned" =>
        /\ \A k \in DOMAIN ret : ret[k].clientId \in Range(creds)
        /\ \A id \in Range(creds) :
               CountTagged(id) =
                   SumOver(delivered,
                           { j \in Launched : creds[j] = id /\ ~pageFailed[j] })

\* A posting delivered with the tag "B" comes back from store A tagged "A".
C8_Witness ==
    /\ pc = "returned"
    /\ creds = <<"A", "B">>
    /\ \E k \in DOMAIN ret :
           ret[k].clientId = "A" /\ ret[k].in_process_at = "2024-01-02T00:00:00Z"
    /\ \E k \in DOMAIN ret : ret[k].clientId = "B"

\* C9: the offsets a store's fetch requests are 0, limit, 2 * limit, ... in
\* that order, and a request is added only by a pending fetch that has just
\* received a page with has_next true: none after has_next false, none after
\* a failure.
C9_Offsets ==
    \A i \in DOMAIN requests :
        \A k \in DOMAIN requests[i] : requests[i][k] = (k - 1) * limit

C9_RequestStep ==
    \A i \in DOMAIN requests :
        requests'[i] # requests[i] =>
            /\ Pending(i)
            /\ hasNext'[i]
            /\ ~pageFailed'[i]
            /\ requests'[i] = Append(requests[i], Len(requests[i]) * limit)

C9_Pagination == []C9_Offsets /\ [][C9_RequestStep]_vars

C9_Witness ==
    \E i \in Launched :
        /\ requests[i] = <<0, 100, 200>>
        /\ ~Pending(i) /\ ~hasNext[i]
        /\ \E j \in Launched : pageFailed[j] /\ Len(requests[j]) = 1

\* C10: a fetch issues at most 101 requests, none above offset 10,000, and a
\* fetch that ends without failure while has_next is still true has issued
\* exactly 101 requests, the last at offset 10,000, and is fulfilled with all
\* the orders delivered to it, without a warning.
C10_SafetyCap ==
    \A i \in Launched :
        /\ Len(requests[i]) <= MaxRequests
        /\ \A k \in DOMAIN requests[i] : requests[i][k] <= SafetyLimit
        /\ (Succeeded(i) /\ hasNext[i]) =>
               /\ Len(requests[i]) = MaxRequests
               /\ requests[i][MaxRequests] = SafetyLimit
               /\ promises[i].state = "fulfilled"
               /\ Len(promises[i].value) = delivered[i]
               /\ alerts[i] = <<>>

C10_Witness ==
    /\ pc = "returned"
    /\ endless
    /\ Succeeded(1) /\ hasNext[1]
    /\ Len(requests[1]) = 101
    /\ Len(ret) >= 1

\* C11 (as stated): no warning has been raised while a per-store fetch is
\* still pending.
C11_WarningsAfterSettle ==
    \A i \in Launched :
        alerts[i] # <<>> => \A j \in Launched : ~Pending(j)

\* C11 (amended): a store's warning is raised by its own fetch in the step in
\* which its page request fails, whatever the other fetches are doing: at every
\* moment a store has exactly one warning if a page request of it has failed
\* and none otherwise, so every warning precedes the return.
C11_WarningAtFailure ==
    \A i \in Launched :
        /\ pageFailed[i] => Len(alerts[i]) = 1
        /\ ~pageFailed[i] => alerts[i] = <<>>

C11_Witness ==
    /\ pc = "awaiting"
    /\ Len(creds) = 2
    /\ pageFailed[1] /\ Len(alerts[1]) = 1
    /\ Pending(2)

(***************************************************************************)
(* Properties of the Dashboard.                                            *)
(***************************************************************************)
\* The memos of the last render.
Rendered == stats # Null /\ smartGroups # Null /\ averages # Null
theStats == CHOOSE s \in stats : TRUE
theGroups == CHOOSE g \in smartGroups : TRUE
theAverages == CHOOSE a \in averages : TRUE

Buckets == theStats.revenueByCurrency
BucketKeys == { Buckets[e].key : e \in DOMAIN Buckets }

\* Positions of `orders`.
Positions == DOMAIN orders

HasItems(order) == order.products # <<>>

\* C12: the stats of an empty order list have no currency bucket, a series of
\* exactly 15 points whose amounts are all 0, and totalOrders = 0.
C12_EmptyStats ==
    (Rendered /\ orders = <<>>) =>
        /\ theStats.revenueByCurrency = <<>>
        /\ Len(theStats.chartData) = 15
        /\ \A j \in DOMAIN theStats.chartData : theStats.chartData[j].amount = 0
        /\ theStats.totalOrders = 0

C12_Witness ==
    /\ Rendered
    /\ orders = <<>>
    /\ Len(theStats.chartData) = 15

\* C13 (as stated): an order with no line items is counted in totalOrders and
\* adds to no currency bucket's amount or count and to no date bucket; the
\* buckets and the series are those of the orders that have line items.
C13_NoItemsExcluded ==
    Rendered =>
        LET withItems == SelectSeq(orders, HasItems)
        IN  /\ theStats.totalOrders = Len(orders)
            /\ theStats.revenueByCurrency = RevenueByCurrency(withItems)
            /\ theStats.chartData =
                   ChartData(SalesByDateAndCurrency(withItems),
                             theStats.dominantCurrency, now)

\* The sum of the payouts of the financial lines of an order.
PayoutSum(order) ==
    LET products == CHOOSE f \in order.financial_data : TRUE
    IN  reduceSum([k \in DOMAIN products |-> products[k].payout])

\* The revenue of an order under the stated rule.
StatedRevenue(order) ==
    IF order.financial_data # Null THEN PayoutSum(order) ELSE UnitPriceSum(order)

\* C14 (as stated): the revenue the stats add for an order is the sum of its
\* financial payouts whenever it has financial data, also when that sum is
\* 0, and otherwise the sum of its unit prices, not multiplied by quantity.
C14_RevenueRule ==
    Rendered => \A k \in Positions : OrderTotal(orders[k]) = StatedRevenue(orders[k])

\* The currencies of the orders, the first position at which a currency
\* occurs and the total the orders of a currency add up to.
Currencies == { OrderCurrency(orders[k]) : k \in Positions }
PositionsOf(c) == { k \in Positions : OrderCurrency(orders[k]) = c }
FirstPosition(c) == CHOOSE k \in PositionsOf(c) : \A l \in PositionsOf(c) : k <= l
RevenueOf(c) == SumOver([k \in Positions |-> OrderTotal(orders[k])], PositionsOf(c))

\* C15: the buckets hold the total of each currency's orders; the dominant
\* currency has a maximal total, and among the currencies with that total
\* it is the one that occurs first in the order sequence.  Without orders
\* it is the default currency.
C15_Dominant ==
    Rendered =>
        LET dominant == theStats.dominantCurrency
        IN  /\ BucketKeys = Currencies
            /\ \A c \in Currencies : ObjGet(Buckets, c).amount = RevenueOf(c)
            /\ orders = <<>> => dominant = DefaultCurrency
            /\ orders # <<>> =>
                  /\ dominant \in Currencies
                  /\ \A c \in Currencies :
                        /\ RevenueOf(c) <= RevenueOf(dominant)
                        /\ RevenueOf(c) = RevenueOf(dominant) =>
                              FirstPosition(dominant) <= FirstPosition(c)

\* Two currencies tie for the maximum, and the first of them is not the
\* default.
C15_Witness ==
    /\ Rendered
    /\ theStats.dominantCurrency # DefaultCurrency
    /\ \E c \in Currencies :
          /\ c # theStats.dominantCurrency
          /\ RevenueOf(c) = RevenueOf(theStats.dominantCurrency)

\* The total of the orders of currency c dated `date`.
RevenueOn(date, c) ==
    SumOver([k \in Positions |-> OrderTotal(orders[k])],
            { k \in PositionsOf(c) : OrderDate(orders[k]) = date })

\* The series is the one of the 15 calendar days that end with day `today`.
SeriesEnding(today) ==
    /\ Len(theStats.chartData) = 15
    /\ \A j \in 1..15 :
          LET date == DateOfDay(today - 15 + j)
              point == theStats.chartData[j]
          IN  /\ point.date = MonthDay(date)
              /\ point.amount = RevenueOn(date, theStats.dominantCurrency)
              /\ point.currency = theStats.dominantCurrency

\* C16 (as stated): the series has exactly 15 points, one per calendar day
\* of the 15 days ending today (the local or the UTC date of the clock) in
\* ascending order, each with the total of the dominant-currency orders of
\* that date and nothing of the other currencies.
C16_Series ==
    Rendered => (SeriesEnding(now.day) \/ SeriesEnding(UtcDay(now)))

\* Where the zone's offset from UTC does not change within the 15 days, the
\* series is the one of the 15 days ending with the UTC date of the clock.
SeriesInFixedZone ==
    (Rendered /\ now.tz = "UTC") => SeriesEnding(UtcDay(now))

\* C17: the average order value shown for every bucket is amount / count
\* rounded to the nearest integer, halves up, and every bucket has a count
\* of at least 1.
C17_Average ==
    Rendered =>
        /\ Len(theAverages) = Len(Buckets)
        /\ \A e \in DOMAIN Buckets :
            LET bucket == Buckets[e].value
                avg == theAverages[e].avg
            IN  /\ theAverages[e].curr = Buckets[e].key
                /\ bucket.count >= 1
                /\ (2 * avg - 1) * bucket.count <= 2 * bucket.amount
                /\ 2 * bucket.amount < (2 * avg + 1) * bucket.count

\* A bucket whose quotient is rounded up.
C17_Witness ==
    /\ Rendered
    /\ \E e \in DOMAIN Buckets :
          /\ Buckets[e].value.count >= 2
          /\ theAverages[e].avg * Buckets[e].value.count > Buckets[e].value.amount

\* The pairs <<g, m>> such that the order at position k is member m of group g.
Memberships(k) ==
    { gm \in { <<g, m>> : g \in DOMAIN theGroups, m \in 1..MaxOrderSeq + 1 } :
        /\ gm[2] \in DOMAIN theGroups[gm[1]].orders
        /\ theGroups[gm[1]].orders[gm[2]] = orders[k] }

\* C18: every member of every group has exactly one line item, and an order
\* with no or with several line items is in no group.
C18_SingleItemOnly ==
    Rendered =>
        /\ \A g \in DOMAIN theGroups : \A m \in DOMAIN theGroups[g].orders :
              Len(theGroups[g].orders[m].products) = 1
        /\ \A k \in Positions :
              Len(orders[k].products) # 1 => Memberships(k) = {}

\* Orders with no, with one and with several line items, and a group.
C18_Witness ==
    /\ Rendered
    /\ \E k \in Positions : Len(orders[k].products) = 0
    /\ \E k \in Positions : Len(orders[k].products) >= 2
    /\ theGroups # <<>>

\* C19: the groups partition the single-item orders by offer id.
C19_Partition ==
    Rendered =>
        /\ \A k \in Positions :
              Len(orders[k].products) = 1 => Cardinality(Memberships(k)) = 1
        /\ \A g \in DOMAIN theGroups : \A m \in DOMAIN theGroups[g].orders :
              theGroups[g].orders[m].products[1].offer_id
                  = theGroups[g].product.offer_id
        /\ \A g, h \in DOMAIN theGroups :
              theGroups[g].product.offer_id = theGroups[h].product.offer_id => g = h
        /\ \A g \in DOMAIN theGroups : theGroups[g].orders # <<>>

\* A group with members of two stores, next to another group.
C19_Witness ==
    /\ Rendered
    /\ Len(theGroups) >= 2
    /\ \E g \in DOMAIN theGroups : \E m, n \in DOMAIN theGroups[g].orders :
          theGroups[g].orders[m].clientId # theGroups[g].orders[n].clientId

\* The first position of `orders` at which a single-item order has the offer
\* id of group g.
FirstSeen(g) ==
    LET at == { k \in Positions :
                  /\ Len(orders[k].products) = 1
                  /\ orders[k].products[1].offer_id = theGroups[g].product.offer_id }
    IN  CHOOSE k \in at : \A l \in at : k <= l

Ordered(g, h) ==
    /\ Len(theGroups[g].orders) >= Len(theGroups[h].orders)
    /\ Len(theGroups[g].orders) = Len(theGroups[h].orders) => FirstSeen(g) < FirstSeen(h)

\* C20 (as stated): the groups are in descending order of member count, and
\* groups of equal count are in the order in which their offer ids first
\* occur in the order sequence, whatever the offer ids look like.
C20_GroupOrder ==
    Rendered =>
        \A g, h \in DOMAIN theGroups : g < h => Ordered(g, h)

\* With offer ids that are not array indices the stated order holds.
GroupOrderForNameKeys ==
    (Rendered /\ \A g \in DOMAIN theGroups :
                    ArrayIndex(theGroups[g].product.offer_id) < 0) =>
        \A g, h \in DOMAIN theGroups : g < h => Ordered(g, h)

\* C21: the product of a group, and its currency, are those of the first
\* single-item order with the group's offer id in the order sequence.
C21_Representative ==
    Rendered =>
        \A g \in DOMAIN theGroups :
            LET first == orders[FirstSeen(g)].products[1]
            IN  /\ theGroups[g].product = first
                /\ theGroups[g].currency =
                      IF first.currency_code = "" THEN DefaultCurrency
                      ELSE first.currency_code

\* A group with a later member whose line item differs from the first one's.
C21_Witness ==
    /\ Rendered
    /\ \E g \in DOMAIN theGroups : \E m \in DOMAIN theGroups[g].orders :
          /\ theGroups[g].orders[m].products[1] # theGroups[g].product
          /\ theGroups[g].orders[m].products[1].name # theGroups[g].product.name
          /\ theGroups[g].orders[m].products[1].price # theGroups[g].product.price

(***************************************************************************)
(* Properties of the picking list.                                         *)
(***************************************************************************)
theCards == CHOOSE c \in groupCards : TRUE
theExport == CHOOSE e \in exported : TRUE

\* The members of group g whose posting number is in the set `packed`.
PackedMembers(g, packed) ==
    { m \in DOMAIN theGroups[g].orders :
        theGroups[g].orders[m].posting_number \in packed }

\* C22: on the card of every group, under every packed set, the packed count
\* is the number of members whose posting number is in the packed set, the
\* unpacked count is the number of the other members, and the two add up to
\* the number of members.
C22_PackedSplit ==
    Rendered =>
        /\ Len(theCards) = Len(theGroups)
        /\ \A g \in DOMAIN theGroups :
              LET members == DOMAIN theGroups[g].orders
                  packed == PackedMembers(g, packedOrderIds)
              IN  /\ theCards[g].packedCount = Cardinality(packed)
                  /\ theCards[g].unpackedCount = Cardinality(members \ packed)
                  /\ theCards[g].packedCount + theCards[g].unpackedCount
                        = Len(theGroups[g].orders)

\* Two members with the same posting number, packed, next to an unpacked one.
C22_Witness ==
    /\ Rendered
    /\ \E g \in DOMAIN theGroups :
          /\ theCards[g].packedCount = 2
          /\ theCards[g].unpackedCount = 1

\* A reader of delimited text: records end at a line break, fields at a
\* comma, both outside quotes; a position is outside quotes when an even
\* number of quote characters precedes it; inside quotes a doubled quote is
\* one quote.
Breaks(text, separator) ==
    { k \in DOMAIN text :
        /\ text[k] = separator
        /\ Cardinality({ j \in 1..k - 1 : text[j] = Quote }) % 2 = 0 }

NthOf(cuts, n) == CHOOSE p \in cuts : Cardinality({ q \in cuts : q < p }) = n - 1

\* The pieces of text between the cuts; the piece after the last cut is kept
\* when `rest` holds.
SplitAt(text, cuts, rest) ==
    [n \in 1..Cardinality(cuts) + (IF rest THEN 1 ELSE 0) |->
        SubSeq(text,
               IF n = 1 THEN 1 ELSE NthOf(cuts, n - 1) + 1,
               IF n <= Cardinality(cuts) THEN NthOf(cuts, n) - 1 ELSE Len(text))]

RECURSIVE Unquote(_, _)
Unquote(field, inQuotes) ==
    IF field = <<>> THEN <<>>
    ELSE IF field[1] # Quote THEN <<field[1]>> \o Unquote(Tail(field), inQuotes)
    ELSE IF inQuotes /\ Len(field) >= 2 /\ field[2] = Quote
    THEN <<Quote>> \o Unquote(SubSeq(field, 3, Len(field)), TRUE)
    ELSE Unquote(Tail(field), ~inQuotes)

ParseRecord(line) ==
    LET fields == SplitAt(line, Breaks(line, Comma), TRUE)
    IN  [f \in DOMAIN fields |-> Unquote(fields[f], FALSE)]

ParseCsv(text) ==
    LET lines == SplitAt(text, Breaks(text, NewLine), FALSE)
    IN  [r \in DOMAIN lines |-> ParseRecord(lines[r])]

\* The records of the exported file after the header.
DataRows == Tail(ParseCsv(theExport.csv))

QuotesIn(text) == Cardinality({ k \in DOMAIN text : text[k] = Quote })

\* C23: the exported file has one data row per group, in group order, and a
\* name with quote characters is written in quotes with every quote doubled:
\* a reader of the file gets the name back.
C23_Rows ==
    (Rendered /\ exported # Null) =>
        /\ \A rows \in {DataRows} :
            /\ Len(rows) = Len(theGroups)
            /\ \A g \in DOMAIN theGroups :
                  /\ Len(rows[g]) = 8
                  /\ rows[g][1] = << theGroups[g].product.offer_id >>
                  /\ rows[g][3] = theGroups[g].product.name
        /\ QuotesIn(theExport.csv)
              = SumOver([g \in DOMAIN theGroups |->
                            2 + 2 * QuotesIn(theGroups[g].product.name)],
                        DOMAIN theGroups)

\* A file of two rows or more, one with quotes, a comma and a line break in
\* the name.
C23_Witness ==
    /\ Rendered
    /\ exported # Null
    /\ Len(theGroups) >= 2
    /\ \E g \in DOMAIN theGroups :
          /\ QuotesIn(theGroups[g].product.name) >= 2
          /\ Comma \in Range(theGroups[g].product.name)

\* The quantity a member adds: that of its line item, 1 when it has none.
QuantityOf(order) ==
    IF order.products[1].quantity = Null THEN 1
    ELSE CHOOSE n \in order.products[1].quantity : TRUE

\* C24: in every row the total quantity is the sum of the members'
\* quantities, 1 for a member without quantity, and the unpacked and packed
\* counts are those of the group under the packed set of the export.
C24_RowCounts ==
    (Rendered /\ exported # Null) =>
        \A rows \in {DataRows} :
        /\ Len(rows) = Len(theGroups)
        /\ \A g \in DOMAIN theGroups :
              LET members == DOMAIN theGroups[g].orders
                  packed == PackedMembers(g, theExport.packedAt)
              IN  /\ Len(rows[g]) = 8
                  /\ rows[g][6] =
                        << ToString(SumOver([m \in members |->
                                                QuantityOf(theGroups[g].orders[m])],
                                            members)) >>
                  /\ rows[g][7] = << ToString(Cardinality(members \ packed)) >>
                  /\ rows[g][8] = << ToString(Cardinality(packed)) >>

\* A row of a group with a member without quantity, a member with a quantity
\* above 1, a packed and an unpacked member.
C24_Witness ==
    /\ Rendered
    /\ exported # Null
    /\ \E g \in DOMAIN theGroups :
          /\ \E m \in DOMAIN theGroups[g].orders :
                theGroups[g].orders[m].products[1].quantity = Null
          /\ \E m \in DOMAIN theGroups[g].orders :
                QuantityOf(theGroups[g].orders[m]) > 1
          /\ PackedMembers(g, theExport.packedAt) # {}
          /\ PackedMembers(g, theExport.packedAt) # DOMAIN theGroups[g].orders

\* C29 (as stated): the packed button of an order of one store leaves the
\* packed status of every order of another store as it was, also when the
\* two orders have the same posting number.
C29_StoreScoped ==
    [][\A k \in DOMAIN orders :
          TogglePackedOrder(k) =>
              \A l \in DOMAIN orders :
                  orders[l].clientId # orders[k].clientId =>
                      (IsPacked(orders[l], packedOrderIds')
                          <=> IsPacked(orders[l], packedOrderIds))]_vars

\* With posting numbers that differ between the stores, the packed button
\* of an order changes the packed status of that order alone.
PackedButtonWithoutCollision ==
    [][\A k \in DOMAIN orders :
          TogglePackedOrder(k) =>
              \A l \in DOMAIN orders :
                  orders[l].posting_number # orders[k].posting_number =>
                      (IsPacked(orders[l], packedOrderIds')
                          <=> IsPacked(orders[l], packedOrderIds))]_vars

----------------------------------------------------------------------------
(***************************************************************************)
(* Independence of the per-store fetches.                                  *)
(***************************************************************************)
\* The locals of store i's fetch and what it has settled with.
Locals(i) ==
    << promises[i], offset[i], allPostings[i], hasNext[i], requests[i], delivered[i],
       alerts[i], pageFailed[i] >>

LocalsAfter(i) ==
    << promises'[i], offset'[i], allPostings'[i], hasNext'[i], requests'[i],
       delivered'[i], alerts'[i], pageFailed'[i] >>

PostingNumbersOf(postings) == [k \in DOMAIN postings |-> postings[k].posting_number]

\* The values of stores 1..i, one after the other.
RECURSIVE InListOrder(_)
InListOrder(i) == IF i = 0 THEN <<>> ELSE InListOrder(i - 1) \o promises[i].value

AtTime(postings, t) ==
    SelectSeq(postings, LAMBDA p : getTime(p.in_process_at) = t)

Times == { getTime(d[1]) : d \in Deliverable }

\* Every store's list holds exactly what was delivered to that store, in the
\* order of delivery (the k-th posting delivered to a store has posting
\* number k); the result is descending in time, and its orders of one
\* creation time stand in credential-list order and, within a store, in
\* page order.
C27_Lists ==
    /\ pc = "awaiting" =>
          \A i \in Stores :
             /\ Pending(i) =>
                   PostingNumbersOf(allPostings[i]) = [k \in 1..delivered[i] |-> k]
             /\ ~Pending(i) /\ ~pageFailed[i] =>
                   /\ PostingNumbersOf(promises[i].value) = [k \in 1..delivered[i] |-> k]
                   /\ \A k \in DOMAIN promises[i].value :
                         promises[i].value[k].clientId = creds[i]
    /\ pc = "returned" /\ ~NoCredentials =>
          /\ \A k \in 1..(Len(ret) - 1) :
                getTime(ret[k].in_process_at) >= getTime(ret[k + 1].in_process_at)
          /\ \A t \in Times : AtTime(ret, t) = AtTime(InListOrder(Len(creds)), t)

\* A step of one store's fetch leaves the other stores' fetches as they
\* are, and a page only extends the store's own list.
C27_Step ==
    pc = "awaiting" /\ pc' = "awaiting" =>
       \A i \in Stores :
          LocalsAfter(i) # Locals(i) =>
             /\ \A j \in Stores \ {i} : LocalsAfter(j) = Locals(j)
             /\ Pending(i)
             /\ promises'[i].state = "pending" =>
                   SubSeq(allPostings'[i], 1, Len(allPostings[i])) = allPostings[i]

\* C27: the result of fetchAggregatedOrders is fixed by the credential list
\* and by what each store returned, however the stores' responses
\* interleave: each store accumulates into its own list, and orders of equal
\* creation time appear in credential-list order and, within a store, in
\* page order.
C27_Independent == []C27_Lists /\ [][C27_Step]_vars

\* The result holds an order of the first store before an order of the
\* second store with the same creation time, written in another notation.
C27_Witness ==
    /\ pc = "returned"
    /\ Len(ret) = 2
    /\ ret[1].clientId = "A" /\ ret[2].clientId = "B"
    /\ getTime(ret[1].in_process_at) = getTime(ret[2].in_process_at)
    /\ ret[1].in_process_at # ret[2].in_process_at

----------------------------------------------------------------------------
(***************************************************************************)
(* The failure message of a non-ok page response.                          *)
(***************************************************************************)
\* The detail as stated: the body's message, else its error.message, else
\* the raw body.
StatedDetail(body) ==
    IF body.json /\ body.message # "" THEN body.message
    ELSE IF body.json /\ body.nested # "" THEN body.nested
    ELSE body.text

StatedMessage(status, body) ==
    IF status = 401 \/ status = 403
    THEN <<"Client ID or API Key invalid", StatedDetail(body)>>
    ELSE <<"API Error", StatusText(status), StatedDetail(body)>>

\* C28: the failure reported for a non-ok page response carries the body's
\* message, else the nested error.message, else the raw body (also when the
\* body is not JSON), together with the status classification.
C28_FailureMessage ==
    [][\A i \in Stores, r \in ErrorResponses :
          ErrorResponse(i, r[1], r[2]) =>
             alerts'[i][Len(alerts'[i])].message = StatedMessage(r[1], r[2])]_vars

\* The same for the responses whose body is JSON.
FailureMessageForJson ==
    [][\A i \in Stores, r \in ErrorResponses :
          r[2].json /\ ErrorResponse(i, r[1], r[2]) =>
             alerts'[i][Len(alerts'[i])].message = StatedMessage(r[1], r[2])]_vars

----------------------------------------------------------------------------
(***************************************************************************)
(* Overlapping loadData runs.                                              *)
(***************************************************************************)
AllLoadsDone == \A k \in DOMAIN loads : loads[k].state = "done"

\* C30: once every loadData run has finished, the orders in memory are the
\* result of the run that started last (while credentials are configured:
\* logging out empties the orders).
C30_LatestRunWins ==
    loads # <<>> /\ AllLoadsDone /\ appCredentials # <<>>
        => orders = loads[Len(loads)].data

\* The same while no two runs overlap.
LatestRunWinsWithoutOverlap ==
    [][(\A k \in DOMAIN loads : loads[k].state = "done" \/ k = Len(loads))
         /\ loads' # <<>> /\ AllLoadsDone' /\ appCredentials' # <<>>
         /\ (\E k \in DOMAIN loads : loads[k].state = "pending")
            => orders' = loads'[Len(loads')].data]_vars

----------------------------------------------------------------------------
(***************************************************************************)
(* The loading flag and logout.                                            *)
(***************************************************************************)
InFlight == { k \in DOMAIN loads : loads[k].state = "pending" }

\* C31: `loading` is true exactly while at least one loadData run is in
\* flight, also when runs overlap.
C31_LoadingWhileInFlight == loading <=> InFlight # {}

\* The half that does not depend on overlap: with no run in flight `loading`
\* is false.
LoadingFalseWhenIdle == InFlight = {} => ~loading

\* C32: after handleLogout and until credentials are saved again, the
\* credential list and the orders are empty, also when a run that was in
\* flight at the logout finishes afterwards.
C32_EmptyAfterLogout ==
    loggedOut => appCredentials = <<>> /\ orders = <<>>

\* The credentials, in memory and in localStorage, do stay empty.
CredentialsEmptyAfterLogout ==
    loggedOut => appCredentials = <<>> /\ storedCreds = <<>>

\* And so do the orders when no run was in flight at the logout.
OrdersEmptyAfterQuietLogout ==
    [][loggedOut /\ InFlight = {} /\ orders = <<>> /\ loggedOut' => orders' = <<>>]_vars

----------------------------------------------------------------------------
(***************************************************************************)
(* Consistency of the currency buckets and the date buckets.               *)
(***************************************************************************)
theSales == CHOOSE sales \in salesByDateAndCurrency : TRUE

\* salesByDateAndCurrency[date][c], 0 where there is no such cell.
Cell(date, c) ==
    IF date \in DOMAIN theSales /\ c \in DOMAIN theSales[date]
    THEN theSales[date][c] ELSE 0

CellsOf(k) ==
    { cell \in (DOMAIN theSales) \X BucketKeys :
         /\ cell[2] \in DOMAIN theSales[cell[1]]
         /\ cell[1] = OrderDate(orders[k])
         /\ cell[2] = OrderCurrency(orders[k]) }

\* C33: every currency bucket's amount is the sum over the dates of that
\* currency's per-date amounts; the counts of the buckets add up to the
\* number of orders; every order's revenue is in exactly one currency
\* bucket and one (date, currency) cell, and every cell is the total of
\* the orders of that date and currency.
C33_BucketsAgree ==
    Rendered /\ salesByDateAndCurrency # Null =>
        /\ \A c \in BucketKeys :
              /\ ObjGet(Buckets, c).amount
                    = SumOver([d \in DOMAIN theSales |-> Cell(d, c)], DOMAIN theSales)
              /\ ObjGet(Buckets, c).count = Cardinality(PositionsOf(c))
        /\ SumOver([e \in DOMAIN Buckets |-> Buckets[e].value.count], DOMAIN Buckets)
              = Len(orders)
        /\ \A k \in Positions :
              /\ Cardinality({ c \in BucketKeys : k \in PositionsOf(c) }) = 1
              /\ Cardinality(CellsOf(k)) = 1
        /\ \A d \in DOMAIN theSales : \A c \in DOMAIN theSales[d] :
              /\ c \in BucketKeys
              /\ theSales[d][c] = RevenueOn(d, c)

\* Two currencies, one of them with revenue on two dates.
C33_Witness ==
    /\ Rendered /\ salesByDateAndCurrency # Null
    /\ Len(Buckets) >= 2
    /\ \E c \in BucketKeys : \E d1, d2 \in DOMAIN theSales :
          /\ d1 # d2
          /\ Cell(d1, c) > 0 /\ Cell(d2, c) > 0

----------------------------------------------------------------------------
(***************************************************************************)
(* Frame of togglePackedStatus.                                            *)
(***************************************************************************)
\* What a step that calls togglePackedStatus(ids, status) must do.
ToggleEffect(ids, status) ==
    /\ \A id \in Range(ids) : id \in packedOrderIds' <=> status
    /\ \A id \in (PostingNumbers \cup packedOrderIds \cup packedOrderIds') \ Range(ids) :
          id \in packedOrderIds' <=> id \in packedOrderIds
    /\ (togglePackedStatus(ids, status).packed)' = packedOrderIds'
    /\ IF Len(ids) > 1 THEN selectedOrders' = {}
       ELSE selectedOrders' = selectedOrders

GroupIds(g) ==
    LET group == theGroups[g] IN
    [m \in DOMAIN group.orders |-> group.orders[m].posting_number]

\* C34: a call of togglePackedStatus(ids, status) leaves every id of ids
\* packed when status is true and unpacked when it is false, changes the
\* status of no other id, gives the same set when repeated, and clears the
\* selection exactly when ids has more than one element.  Checked on the
\* calls of the row button, the selection bar and the group card.
C34_ToggleFrame ==
    [][/\ \A k \in DOMAIN orders :
             \A ids \in { <<orders[k].posting_number>> } :
             \A status \in { ~IsPacked(orders[k], packedOrderIds) } :
                TogglePackedOrder(k) => ToggleEffect(ids, status)
       /\ \A status \in BOOLEAN :
             \A ids \in { ArrayFrom(selectedOrders) } :
                MarkSelected(status) => ToggleEffect(ids, status)
       /\ \A g \in 1..(MaxOrderSeq + 1) :
             MarkGroupPacked(g) => \A ids \in { GroupIds(g) } : ToggleEffect(ids, TRUE)
      ]_vars

\* Since the last export two or more orders were marked as packed, and the
\* selection is empty.
C34_Witness ==
    /\ exported # Null
    /\ Cardinality(packedOrderIds \ theExport.packedAt) >= 2
    /\ theExport.packedAt \subseteq packedOrderIds
    /\ selectedOrders = {}

----------------------------------------------------------------------------
(***************************************************************************)
(* The label batches.                                                      *)
(***************************************************************************)
\* The store an order was fetched from; the first credential's store for an
\* order without tag.
StoreOfOrder(order) ==
    IF order.clientId # "" THEN order.clientId ELSE storedCreds[1].clientId

\* The stores that hold an order with this posting number; the first
\* credential's store when no loaded order has it.
StoresOfId(id) ==
    IF \E k \in DOMAIN orders : orders[k].posting_number = id
    THEN { StoreOfOrder(orders[k]) :
             k \in { l \in DOMAIN orders : orders[l].posting_number = id } }
    ELSE { storedCreds[1].clientId }

Occurrences(ids, id) == Cardinality({ m \in DOMAIN ids : ids[m] = id })

\* The batches of the run a step starts: the one requested at once and those
\* that wait.
PlannedBatches ==
    << [key |-> labelRequests'[1].target, value |-> labelRequests'[1].ids] >>
        \o labelBatches'

\* The ids are spread over batches of distinct stores, every id in one batch,
\* which belongs to a store that holds it.
Batched(ids) ==
    LET batches == PlannedBatches IN
    /\ \A b, c \in DOMAIN batches : b # c => batches[b].key # batches[c].key
    /\ \A id \in Range(ids) :
          /\ Cardinality({ b \in DOMAIN batches : id \in Range(batches[b].value) }) = 1
          /\ \A b \in DOMAIN batches :
                id \in Range(batches[b].value) =>
                   /\ Occurrences(batches[b].value, id) = Occurrences(ids, id)
                   /\ batches[b].key \in StoresOfId(id)
    /\ \A b \in DOMAIN batches : Range(batches[b].value) \subseteq Range(ids)

\* At most one label request is pending, and a request carries the ids of
\* its batch only.
OneAfterAnother ==
    /\ Cardinality({ r \in DOMAIN labelRequests' :
                        labelRequests'[r].outcome = "pending" }) <= 1
    /\ \A r \in DOMAIN labelRequests' :
          \A id \in Range(labelRequests'[r].ids) :
             labelRequests'[r].target \in StoresOfId(id)

\* C35: every requested posting id is placed in exactly one batch, the one
\* of the store its order was fetched from (the first credential's store for
\* an unknown or untagged order); the batches are requested one after
\* another, each with that store's ids only; the label button of a row
\* requests the label from the store of that row's order, also when another
\* store holds an order with the same posting number.
C35_StoreBatches ==
    [][/\ \A ids \in LabelSelections : StartDownload(ids) => Batched(ids)
       /\ \A k \in DOMAIN orders :
             DownloadRowLabel(k) =>
                /\ Batched(<< orders[k].posting_number >>)
                /\ labelRequests'[1].target = StoreOfOrder(orders[k])
       /\ OneAfterAnother]_vars

\* The same for the rows whose posting number no other loaded order has.
StoreBatchesWithoutCollision ==
    [][/\ \A ids \in LabelSelections : StartDownload(ids) => Batched(ids)
       /\ \A k \in DOMAIN orders :
             (\A l \in DOMAIN orders :
                 orders[l].posting_number = orders[k].posting_number => l = k)
             /\ DownloadRowLabel(k) =>
                /\ Batched(<< orders[k].posting_number >>)
                /\ labelRequests'[1].target = StoreOfOrder(orders[k])
       /\ OneAfterAnother]_vars

----------------------------------------------------------------------------
(***************************************************************************)
(* Properties of the label download.                                       *)
(***************************************************************************)
MatchingCreds(target) ==
    { k \in DOMAIN storedCreds : Some(storedCreds[k].clientId) = target }

\* C25: every label request uses a credential of the list: one whose clientId
\* equals the target store id when the list has such a credential, and the
\* first credential of the list when none matches; without a target the
\* choice is the first credential too.
C25_CredentialChoice ==
    /\ \A r \in DOMAIN labelRequests :
          LET request == labelRequests[r] IN
          /\ request.cred \in Range(storedCreds)
          /\ MatchingCreds(Some(request.target)) # {}
                => request.cred.clientId = request.target
          /\ MatchingCreds(Some(request.target)) = {}
                => request.cred = storedCreds[1]
    /\ \A list \in StoredCredLists \ { <<>> } : ChooseCredential(list, Null) = list[1]

\* One run has requested labels with the second credential of the list, for
\* its store, and with the first credential for a store that is not in the
\* list.
C25_Witness ==
    /\ Len(storedCreds) = 2
    /\ \E r \in DOMAIN labelRequests :
          /\ labelRequests[r].cred = storedCreds[2]
          /\ storedCreds[1].clientId # labelRequests[r].target
    /\ \E r \in DOMAIN labelRequests :
          /\ MatchingCreds(Some(labelRequests[r].target)) = {}
          /\ labelRequests[r].cred = storedCreds[1]

\* C26: a failed label request makes fetchPackageLabel throw (no document is
\* made up); the handler then downloads nothing for that batch, requests no
\* further batch, alerts the user once and clears the downloading flag.
\* Every downloaded document is the body of a successful response.
C26_LabelFailure ==
    /\ \A r \in DOMAIN labelRequests :
          LET request == labelRequests[r] IN
          /\ \A response \in request.response :
                response.kind # "ok" <=> request.outcome = "error"
          /\ request.outcome = "error" =>
                /\ r = Len(labelRequests)
                /\ \A d \in DOMAIN labelDownloads : labelDownloads[d].request # r
                /\ labelAlerts = 1
                /\ labelPc = "idle"
                /\ ~downloading
    /\ \A d \in DOMAIN labelDownloads :
          LET request == labelRequests[labelDownloads[d].request] IN
          /\ request.outcome = "document"
          /\ \A response \in request.response :
                labelDownloads[d].blob = <<"blob", response.text>>
    /\ (\A r \in DOMAIN labelRequests : labelRequests[r].outcome # "error")
          => labelAlerts = 0

\* The second batch of a run failed after the first was downloaded, and a
\* third batch was left unrequested.
C26_Witness ==
    /\ Len(labelRequests) = 2
    /\ labelRequests[2].outcome = "error"
    /\ Len(labelDownloads) = 1
    /\ labelBatches # <<>>
    /\ labelAlerts = 1
    /\ labelPc = "idle"

===========================================================================
